---- MODULE Spec2Model ----
(***************************************************************************)
(* The in-kernel exec tracer of tracexec (src/bpf/tracexec_system.bpf.c):  *)
(* the probes at entry and exit of execve/execveat, the fork and exit      *)
(* tracepoints, the tgid closure, the per-pid slot map, the per-CPU        *)
(* staging area and the ring buffer, as a state machine.  The kernel is    *)
(* the environment: it creates tasks, lets them enter and leave exec and   *)
(* exit, and runs the probe attached to each of these events.              *)
(***************************************************************************)
EXTENDS Integers, Sequences, FiniteSets, TLC

(***************************************************************************)
(* Bounds of the model.                                                    *)
(***************************************************************************)
\* pids the kernel hands out are 1..MaxPid
MaxPid == 2
\* CPUs, each with its own staging entry in `cache`
NumCpus == 1
\* exec entries in one run
MaxExecs == 2
\* kernel events (exec entries, forks, exits of tasks) in one run
MaxEvents == 5
\* records the ring buffer holds before the consumer takes one off
RingCap == 7
\* entries the execs map holds (max_entries, scaled down)
ExecsMaxEntries == 2
\* entries the tgid_closure map holds (max_entries, scaled down)
ClosureMaxEntries == 2

Pids == 1..MaxPid
Cpus == 0..(NumCpus - 1)
NULL == "NULL"
\* a NULL pointer where the model has a record for the object pointed to
NULL_EVENT == [null |-> TRUE]
\* the content of a field the code did not write: whatever the staging
\* area held before
STALE == "STALE"

(***************************************************************************)
(* interface.h: constants, flags, event types.                             *)
(***************************************************************************)
ARGC_MAX == 233017
PATH_DEPTH_MAX == 65536
BITS_PER_LONG == 64
\* (2097152) / sizeof(long)
FDSET_SIZE_MAX_IN_LONG == 262144
\* 02000000
O_CLOEXEC == 524288
AT_FDCWD == -100

TOO_MANY_ITEMS == "TOO_MANY_ITEMS"
COMM_READ_FAILURE == "COMM_READ_FAILURE"
POSSIBLE_TRUNCATION == "POSSIBLE_TRUNCATION"
PTR_READ_FAILURE == "PTR_READ_FAILURE"
STR_READ_FAILURE == "STR_READ_FAILURE"
FDS_PROBE_FAILURE == "FDS_PROBE_FAILURE"
OUTPUT_FAILURE == "OUTPUT_FAILURE"
FLAGS_READ_FAILURE == "FLAGS_READ_FAILURE"
BAIL_OUT == "BAIL_OUT"
LOOP_FAIL == "LOOP_FAIL"
PATH_READ_ERR == "PATH_READ_ERR"
INO_READ_ERR == "INO_READ_ERR"
MNTID_READ_ERR == "MNTID_READ_ERR"
FILENAME_READ_ERR == "FILENAME_READ_ERR"
POS_READ_ERR == "POS_READ_ERR"
\* the value of the FLAGS_READ_FAILURE bit, which _read_fd ors into the
\* open flags of an FD record (not into its header flags)
FLAGS_READ_FAILURE_BIT == 512

SYSENTER_EVENT == "SYSENTER_EVENT"
SYSEXIT_EVENT == "SYSEXIT_EVENT"
STRING_EVENT == "STRING_EVENT"
FD_EVENT == "FD_EVENT"
PATH_SEGMENT_EVENT == "PATH_SEGMENT_EVENT"
PATH_EVENT == "PATH_EVENT"
EXIT_EVENT == "EXIT_EVENT"
FORK_EVENT == "FORK_EVENT"

\* fill_field_with_unknown
UNKNOWN == "[tracexec: unknown]"

\* struct tracexec_event_header, zeroed
empty_header ==
  [pid |-> 0, flags |-> {}, eid |-> 0, id |-> 0, type |-> SYSENTER_EVENT]

\* static const struct exec_event empty_event = {}
empty_event ==
  [header |-> empty_header, tgid |-> 0, uid |-> 0, gid |-> 0, ret |-> 0,
   count |-> <<0, 0>>, fd_count |-> 0, path_count |-> 0, fd |-> 0,
   cwd_path_id |-> 0, flags |-> 0, is_execveat |-> FALSE,
   is_compat |-> FALSE]

(***************************************************************************)
(* tracexec_config.  follow_fork is a variable fixed by Init, so that both *)
(* settings are explored.  The root tracee is pid tracee_pid of the pid    *)
(* namespace with inode tracee_pidns_inum.                                 *)
(***************************************************************************)
\* tracexec_config.nofile as the loader has set it; no probe reads it
nofile == 64
tracee_pid == 1
tracee_pidns_inum == "ns_root"
Namespaces == {"ns_root", "ns_other"}

(***************************************************************************)
(* Kernel objects the probes read.  A small file system: mount mnt0 with   *)
(* root dentry d_root holding /tmp/x, and mount mnt1 mounted on /tmp with  *)
(* root dentry m1_root holding the file y, i.e. /tmp/y.                    *)
(***************************************************************************)
d_parent(d) ==
  CASE d = "d_root" -> "d_root"
    [] d = "d_tmp" -> "d_root"
    [] d = "d_x" -> "d_tmp"
    [] d = "m1_root" -> "m1_root"
    [] d = "m1_y" -> "m1_root"

d_name(d) ==
  CASE d = "d_root" -> "/"
    [] d = "d_tmp" -> "tmp"
    [] d = "d_x" -> "x"
    [] d = "m1_root" -> "/"
    [] d = "m1_y" -> "y"

mnt_root(m) == IF m = "mnt0" THEN "d_root" ELSE "m1_root"
mnt_parent(m) == "mnt0"
mnt_mountpoint(m) == IF m = "mnt0" THEN "d_root" ELSE "d_tmp"
mnt_id(m) == IF m = "mnt0" THEN 21 ELSE 22
fstype_name(m) == IF m = "mnt0" THEN "ext4" ELSE "tmpfs"

\* struct file: f_path, f_flags, f_pos, f_inode->i_ino
Files ==
  [fx |-> [dentry |-> "d_x", mnt |-> "mnt0", f_flags |-> {1}, f_pos |-> 5,
           i_ino |-> 11],
   fy |-> [dentry |-> "m1_y", mnt |-> "mnt1", f_flags |-> {}, f_pos |-> 0,
           i_ino |-> 12],
   fr |-> [dentry |-> "d_root", mnt |-> "mnt0", f_flags |-> {}, f_pos |-> 0,
           i_ino |-> 2],
   \* opened with O_CLOEXEC: the kernel keeps the bit in f_flags, also
   \* after fcntl(F_SETFD) has cleared the fd's close-on-exec bit
   fc |-> [dentry |-> "d_root", mnt |-> "mnt0", f_flags |-> {O_CLOEXEC},
           f_pos |-> 0, i_ino |-> 2]]

(***************************************************************************)
(* What one exec entry reads from the task and from user memory: the       *)
(* syscall's arguments, the task's fd table and fs, and which reads fail.  *)
(*   argv, envp: the strings before the NULL terminator; BadPtr stands for *)
(*     a slot of the pointer array that cannot be read, BadStr for a       *)
(*     string that cannot be read, LongStr for one that fills the buffer;  *)
(*   fname: "ok", "null", "fault" or "fill" (fills base_filename);         *)
(*   open_fds, close_on_exec: the bitmaps, as sets of fd numbers;          *)
(*   fd_array: fd number -> name of a file of Files;                       *)
(*   flt: the reads that fail, as <<field, object>> pairs.                 *)
(***************************************************************************)
BadPtr == "<bad pointer>"
BadStr == "<bad string>"
LongStr == "<buffer-filling string>"

Fault(in, field, obj) == <<field, obj>> \in in.flt

\* the task's fs: root and pwd
fs_root(in) == in.root
fs_pwd(in) == in.pwd

(***************************************************************************)
(* VARIABLES                                                               *)
(***************************************************************************)
VARIABLES
  follow_fork,    \* tracexec_config.follow_fork
  task,           \* kernel: pid -> [alive, tgid, ns, exit_code] and the
                  \*   history fields desc (the process is the root tracee
                  \*   or descends from it), execed (the process has entered
                  \*   an exec), fk (its index in `forks`, 0 if none) and
                  \*   code_read (handle_exit could read its exit_code)
  pc,             \* pid -> where the thread is: "start" (the root tracee,
                  \*   about to exec), "idle", "insys" (inside exec, entry
                  \*   probe done)
  ctx,            \* history: pid -> index in `hist` of its exec in flight
  execs,          \* the execs map: a function from the pids that have a
                  \*   slot to their struct exec_event
  tgid_closure,   \* the tgid_closure map, as a set of tgids
  event_counter,
  drop_counter,
  reg,            \* pid -> the value of drop_counter a probe run by the task
                  \*   has loaded and not yet stored back
  scan,           \* the scan of one word of open_fds: struct
                  \*   fdset_word_reader_context (fdset, next_bit), the
                  \*   iteration of bpf_loop, the bits handed to _read_fd
  tracee_tgid,
  cache,          \* the staging area: cpu -> header left by the last record
  ring,           \* every record placed on the ring buffer, in order
  consumed,       \* how many of them the consumer has taken off
  hist,           \* history: one entry per exec entry that happened
  forks,          \* history: one entry per whole-process fork
  nevents,        \* history: kernel events so far
  fault           \* history: a kernel read, a map insertion for lack of
                  \*   room or a ring-buffer write has failed

vars ==
  <<follow_fork, task, pc, ctx, execs, tgid_closure, event_counter,
    drop_counter, reg, scan, tracee_tgid, cache, ring, consumed, hist,
    forks, nevents, fault>>

\* all of them but the scan of a word
probe_vars ==
  <<follow_fork, task, pc, ctx, execs, tgid_closure, event_counter,
    drop_counter, reg, tracee_tgid, cache, ring, consumed, hist, forks,
    nevents, fault>>

\* no word is being scanned
NoScan == [fdset |-> {}, next_bit |-> 0, index |-> 0, visited |-> <<>>,
           at |-> "idle"]

(***************************************************************************)
(* The ring buffer.  A probe's writes go through an accumulator            *)
(*   st = [rg: the ring so far, lost: records that found no room,          *)
(*         pe: the path_event being built (read_send_path),                *)
(*         taken: how many records the consumer has taken off,             *)
(*         drain: the consumer, which runs concurrently with the probe,    *)
(*                catches up right after a write of this probe found no    *)
(*                room].                                                   *)
(***************************************************************************)
HasRoom(rg) == Len(rg) - consumed < RingCap

\* room for one more record while a probe runs
Room(st) == Len(st.rg) - st.taken < RingCap

\* a write found no room; `n` records were lost by it
NoRoom(st, n) ==
  [st EXCEPT !.lost = @ + n,
             !.taken = IF st.drain THEN Len(st.rg) ELSE @]

\* bpf_ringbuf_output: 0 on success, negative when there is no room
ringbuf_output(st, rec) ==
  IF Room(st)
    THEN [st |-> [st EXCEPT !.rg = Append(@, rec)], ret |-> 0]
    ELSE [st |-> NoRoom(st, 1), ret |-> -1]

NewSt ==
  [rg |-> ring, lost |-> 0, pe |-> NULL_EVENT, taken |-> consumed,
   drain |-> FALSE]

(***************************************************************************)
(* Path resolution: read_send_path and its bpf_loop callbacks.             *)
(*   c = struct path_segment_ctx: [dentry, mnt_root, root, base_index]     *)
(*   m = struct mount_ctx: [mnt, base_index]                               *)
(* Each callback returns ret = 1 to break the loop and 0 to continue.      *)
(***************************************************************************)

\* the segment bytes read_send_dentry_segment leaves in the record, and the
\* header flags that go with them
SegmentOf(in, d) ==
  IF Fault(in, "d_name.name", d)
    THEN [segment |-> "", flags |-> {PTR_READ_FAILURE}]
  ELSE IF Fault(in, "d_name", d)
    THEN [segment |-> "", flags |-> {STR_READ_FAILURE}]
  ELSE IF d_name(d) = ""
    THEN [segment |-> UNKNOWN, flags |-> {}]
  ELSE [segment |-> d_name(d), flags |-> {}]

read_send_dentry_segment(index, c, st, in) ==
  IF ~Room(st)
    \* bpf_ringbuf_reserve returned NULL
    THEN [ret |-> 1, c |-> c,
          st |-> NoRoom([st EXCEPT !.pe.header.flags =
                                      @ \cup {OUTPUT_FAILURE}],
                        IF c.dentry = c.mnt_root \/ c.dentry = c.root
                          THEN 0 ELSE 1)]
  ELSE IF c.dentry = c.mnt_root \/ c.dentry = c.root
    \* reached the mount root or the task's root: bpf_ringbuf_discard
    THEN [ret |-> 1, c |-> [c EXCEPT !.base_index = @ + index], st |-> st]
  ELSE
    LET seg == SegmentOf(in, c.dentry)
        rec == [header |-> [id |-> st.pe.header.id,
                            type |-> PATH_SEGMENT_EVENT,
                            eid |-> st.pe.header.eid,
                            pid |-> st.pe.header.pid,
                            flags |-> seg.flags],
                index |-> index + c.base_index,
                segment |-> seg.segment]
        \* after bpf_ringbuf_submit has left the ring as st1
        Parent(st1) ==
          IF c.dentry = NULL \/ Fault(in, "d_parent", c.dentry)
            THEN [ret |-> 1,
                  c |-> [c EXCEPT !.dentry = NULL,
                                  !.base_index = @ + index + 1],
                  st |-> [st1 EXCEPT !.pe.header.flags = @ \cup {BAIL_OUT}]]
          ELSE IF d_parent(c.dentry) = c.dentry
            \* reached top
            THEN [ret |-> 1, c |-> [c EXCEPT !.base_index = @ + index + 1],
                  st |-> st1]
          ELSE [ret |-> 0, c |-> [c EXCEPT !.dentry = d_parent(c.dentry)],
                st |-> st1]
    IN Parent([st EXCEPT !.rg = Append(@, rec)])

\* bpf_loop(PATH_DEPTH_MAX, read_send_dentry_segment, ctx, 0) from iteration
\* `index` on; n is the number of iterations performed, which is what
\* bpf_loop returns (it returns an error only for nr_loops > 1 << 23)
RECURSIVE loop_dentry_segment(_, _, _, _)
loop_dentry_segment(index, c, st, in) ==
  LET \* r: what the callback returned
      Step(r) ==
        IF r.ret = 1
          THEN [c |-> r.c, st |-> r.st, n |-> index + 1]
          ELSE loop_dentry_segment(index + 1, r.c, r.st, in)
  IN IF index >= PATH_DEPTH_MAX
       THEN [c |-> c, st |-> st, n |-> index]
       ELSE Step(read_send_dentry_segment(index, c, st, in))

\* returns the number of segments iterated, or -1 when bpf_loop fails
read_send_dentry_segments_recursive(c, st, in) ==
  LET \* r: what bpf_loop left
      Ret(r) ==
        IF r.n < 0
          THEN [ret |-> -1, c |-> r.c,
                st |-> [r.st EXCEPT !.pe.header.flags = @ \cup {LOOP_FAIL}]]
          ELSE [ret |-> r.n, c |-> r.c, st |-> r.st]
  IN Ret(loop_dentry_segment(0, c, st, in))

\* one of the reads at the top of read_send_mount_segments fails
MountReadFails(in, mnt) ==
  \/ Fault(in, "mnt_mountpoint", mnt)
  \/ Fault(in, "mnt_parent", mnt)
  \/ Fault(in, "mnt.mnt_root", mnt_parent(mnt))
  \/ Fault(in, "mnt_id", mnt)

read_send_mount_segments(index, m, c, st, in) ==
  IF MountReadFails(in, m.mnt)
    \* err_out: continue, with nothing changed
    THEN [ret |-> 0, m |-> m, c |-> c, st |-> st]
  ELSE IF mnt_parent(m.mnt) = m.mnt
    \* reached the top mount
    THEN [ret |-> 1, m |-> m, c |-> c, st |-> st]
  ELSE
    LET c1 == [dentry |-> mnt_mountpoint(m.mnt),
               mnt_root |-> mnt_root(mnt_parent(m.mnt)),
               root |-> c.root,
               base_index |-> m.base_index]
        \* r: what read_send_dentry_segments_recursive returned
        Up(r) ==
          IF r.ret < 0
            THEN [ret |-> 0, m |-> m, c |-> r.c, st |-> r.st]
            ELSE [ret |-> 0,
                  m |-> [mnt |-> mnt_parent(m.mnt),
                         base_index |-> r.c.base_index],
                  c |-> r.c, st |-> r.st]
    IN Up(read_send_dentry_segments_recursive(c1, st, in))

\* bpf_loop(PATH_DEPTH_MAX, read_send_mount_segments, &ctx, 0).  A callback
\* that continues without changing anything does so on every later
\* iteration as well, until the iterations are used up.
RECURSIVE loop_mount_segments(_, _, _, _, _)
loop_mount_segments(index, m, c, st, in) ==
  LET \* r: what the callback returned
      Step(r) ==
        IF r.ret = 1
          THEN [m |-> r.m, c |-> r.c, st |-> r.st, n |-> index + 1]
        ELSE IF r.m = m /\ r.c = c /\ r.st = st
          THEN [m |-> m, c |-> c, st |-> st, n |-> PATH_DEPTH_MAX]
        ELSE loop_mount_segments(index + 1, r.m, r.c, r.st, in)
  IN IF index >= PATH_DEPTH_MAX
       THEN [m |-> m, c |-> c, st |-> st, n |-> index]
       ELSE Step(read_send_mount_segments(index, m, c, st, in))

\* the mnt_id and fstype read_send_path stores into the fd_event, when it
\* is given one (fde # NULL)
FdMountInfo(fde, mnt, in) ==
  IF fde = NULL_EVENT THEN NULL_EVENT
  ELSE
    LET f1 == IF Fault(in, "mnt_id", mnt)
                \* bpf_probe_read_kernel zeroes what it could not read
                THEN [fde EXCEPT !.header.flags = @ \cup {MNTID_READ_ERR},
                                 !.mnt_id = 0]
                ELSE [fde EXCEPT !.mnt_id = mnt_id(mnt)]
    IN IF Fault(in, "s_type.name", mnt) \/ Fault(in, "fstype", mnt)
         THEN [f1 EXCEPT !.fstype = UNKNOWN]
         ELSE [f1 EXCEPT !.fstype = fstype_name(mnt)]

\* an err_out that sends no PATH record
PathErrOut_silent(st, flag, fde) == [ret |-> -1, st |-> st, fde |-> fde]

\* err_out of read_send_path: the PATH record with segment_count 0
PathErrOut(st, flag, fde) ==
  LET pe == [st.pe EXCEPT !.header.flags = @ \cup {flag},
                          !.segment_count = 0]
      o == ringbuf_output([st EXCEPT !.pe = pe], pe)
  IN [ret |-> -1, st |-> o.st, fde |-> fde]

\* path = [dentry, mnt]; base_header gives eid and pid; fde is the fd_event
\* being built by _read_fd, or NULL_EVENT for the cwd
read_send_path(path, base_header, path_id, fde, st0, in) ==
  LET pe0 == [header |-> [eid |-> base_header.eid, pid |-> base_header.pid,
                          flags |-> {}, id |-> path_id, type |-> PATH_EVENT],
              segment_count |-> 0]
      st == [st0 EXCEPT !.pe = pe0]
      c0 == [dentry |-> path.dentry, mnt_root |-> NULL,
             root |-> fs_root(in), base_index |-> 0]
      \* r2: what the loop over the mounts left; fde1: the fd_event
      Send(r2, fde1) ==
        IF r2.n < 0
          THEN PathErrOut(r2.st, LOOP_FAIL, fde1)
          ELSE
            LET pe == [r2.st.pe EXCEPT !.segment_count = r2.m.base_index]
                o == ringbuf_output([r2.st EXCEPT !.pe = pe], pe)
            IN [ret |-> IF o.ret < 0 THEN -1 ELSE 0,
                st |-> o.st, fde |-> fde1]
      \* r1: what the walk up to the root of the path's mount returned
      Mounts(r1) ==
        IF r1.ret < 0
          THEN PathErrOut(r1.st, LOOP_FAIL, fde)
          ELSE Send(loop_mount_segments(
                      0, [mnt |-> path.mnt, base_index |-> r1.c.base_index],
                      r1.c, r1.st, in),
                    FdMountInfo(fde, path.mnt, in))
  IN IF Fault(in, "fs.root", "current") \/ fs_root(in) = NULL
       THEN PathErrOut(st, PTR_READ_FAILURE, fde)
     ELSE IF Fault(in, "mnt_root", path.mnt)
       THEN PathErrOut(st, PTR_READ_FAILURE, fde)
     ELSE Mounts(read_send_dentry_segments_recursive(
                   [c0 EXCEPT !.mnt_root = mnt_root(path.mnt)], st, in))

(***************************************************************************)
(* The fd-table walk.  A word of a bitmap is the set of its set bits,      *)
(* a subset of 0..BITS_PER_LONG-1; a bitmap is the set of fd numbers.      *)
(***************************************************************************)
WordOf(bitmap, i) ==
  {fd - BITS_PER_LONG * i :
     fd \in {x \in bitmap : x \div BITS_PER_LONG = i}}

\* word >>= k
ShiftRight(word, k) == {b - k : b \in {x \in word : x >= k}}

\* if ((word & ((1 << k) - 1)) == 0) { num += k; word >>= k; }
FfsStep(r, k) ==
  IF r.word \cap (0..(k - 1)) = {}
    THEN [num |-> r.num + k, word |-> ShiftRight(r.word, k)]
    ELSE r

\* generic___ffs built without the BITS_PER_LONG == 64 step
generic___ffs_32(word) ==
  LET r16 == FfsStep([num |-> 0, word |-> word], 16)
      r8 == FfsStep(r16, 8)
      r4 == FfsStep(r8, 4)
      r2 == FfsStep(r4, 2)
  IN IF 0 \notin r2.word THEN r2.num + 1 ELSE r2.num

generic___ffs(word) ==
  LET r32 == FfsStep([num |-> 0, word |-> word], 32)
      r16 == FfsStep(r32, 16)
      r8 == FfsStep(r16, 8)
      r4 == FfsStep(r8, 4)
      r2 == FfsStep(r4, 2)
  IN IF 0 \notin r2.word THEN r2.num + 1 ELSE r2.num

\* GENMASK(h, l): (~0UL - (1UL << l) + 1) has the bits l..63 set and
\* (~0UL >> (BITS_PER_LONG - 1 - h)) the bits 0..h
GENMASK(h, l) == (l..(BITS_PER_LONG - 1)) \cap (0..h)

find_next_bit(bitmap, offset) ==
  IF offset >= BITS_PER_LONG THEN BITS_PER_LONG
  ELSE LET masked == bitmap \cap GENMASK(BITS_PER_LONG - 1, offset)
       IN IF masked # {} THEN generic___ffs(masked) ELSE BITS_PER_LONG

\* _read_fd.  ev is the exec_event, hdr the header the staging entry holds
\* when the call starts; returns the event, the staging header as the
\* call leaves it, and the ring.  The payload fields of the staging entry
\* that the call does not write keep what the entry held: STALE.
read_fd(fd_num, ev, hdr, cloexec, st, in) ==
  LET ev1 == [ev EXCEPT !.fd_count = @ + 1]
      e0 == [header |-> [hdr EXCEPT !.type = FD_EVENT,
                                    !.pid = ev.header.pid,
                                    !.eid = ev.header.eid],
             flags |-> STALE, fd |-> fd_num, mnt_id |-> STALE,
             path_id |-> STALE, ino |-> STALE, pos |-> STALE,
             fstype |-> STALE]
      PtrErr(e) ==
        LET e9 == [e EXCEPT !.header.flags = @ \cup {PTR_READ_FAILURE},
                            !.path_id = -1]
            o == ringbuf_output(st, e9)
        IN [ev |-> ev1, hdr |-> e9.header, st |-> o.st]
  IN IF Fault(in, "fd_array", fd_num)
       THEN PtrErr(e0)
     ELSE
       LET file == Files[in.fd_array[fd_num]]
           e1 == IF Fault(in, "f_pos", fd_num)
                   THEN [e0 EXCEPT !.header.flags = @ \cup {POS_READ_ERR},
                                   !.pos = 0]
                   ELSE [e0 EXCEPT !.pos = file.f_pos]
           e2 == IF Fault(in, "i_ino", fd_num)
                   THEN [e1 EXCEPT !.header.flags = @ \cup {INO_READ_ERR},
                                   !.ino = 0]
                   ELSE [e1 EXCEPT !.ino = file.i_ino]
       IN IF Fault(in, "f_path", fd_num)
            THEN PtrErr(e2)
          ELSE
            LET ev2 == [ev1 EXCEPT !.path_count = @ + 1]
                fl == IF Fault(in, "f_flags", fd_num)
                        THEN {FLAGS_READ_FAILURE_BIT}
                        ELSE file.f_flags
                \* e4: the fd_event as it is sent, st4: the ring then
                Send(e4, st4, ev3) ==
                  [ev |-> ev3, hdr |-> e4.header,
                   st |-> ringbuf_output(st4, e4).st]
                \* r: what read_send_path returned
                Flags(r) ==
                  Send([r.fde EXCEPT
                          !.flags = IF cloexec THEN fl \cup {O_CLOEXEC}
                                    ELSE fl],
                       r.st,
                       IF r.ret < 0
                         THEN [ev2 EXCEPT
                                 !.header.flags = @ \cup {PATH_READ_ERR}]
                         ELSE ev2)
                \* e3: the fd_event with its path_id
                Path(e3) ==
                  Flags(read_send_path([dentry |-> file.dentry,
                                        mnt |-> file.mnt],
                                       e3.header, e3.path_id, e3, st, in))
            IN Path([e2 EXCEPT !.path_id = ev1.path_count])

\* w = struct fdset_word_reader_context: [fdset, cloexec, next_bit,
\* word_index]
read_fdset_word(index, w, ev, hdr, st, in) ==
  IF w.next_bit = BITS_PER_LONG
    THEN [ret |-> 1, w |-> w, ev |-> ev, hdr |-> hdr, st |-> st]
    ELSE
      LET fdnum == w.next_bit + BITS_PER_LONG * w.word_index
          \* r: what _read_fd left
          Next_bit(r) ==
            [ret |-> 0,
             w |-> [w EXCEPT !.next_bit = find_next_bit(w.fdset, @ + 1)],
             ev |-> r.ev, hdr |-> r.hdr, st |-> r.st]
      IN Next_bit(read_fd(fdnum, ev, hdr, w.next_bit \in w.cloexec, st, in))

\* bpf_loop(BITS_PER_LONG, read_fdset_word, &subctx, 0)
RECURSIVE loop_fdset_word(_, _, _, _, _, _)
loop_fdset_word(index, w, ev, hdr, st, in) ==
  LET \* r: what the callback returned
      Step(r) ==
        IF r.ret = 1 THEN [ev |-> r.ev, hdr |-> r.hdr, st |-> r.st]
        ELSE loop_fdset_word(index + 1, r.w, r.ev, r.hdr, r.st, in)
  IN IF index >= BITS_PER_LONG THEN [ev |-> ev, hdr |-> hdr, st |-> st]
     ELSE Step(read_fdset_word(index, w, ev, hdr, st, in))

read_fds_impl(index, ev, hdr, st, in) ==
  IF Fault(in, "open_fds", index)
    THEN [ret |-> 1,
          ev |-> [ev EXCEPT !.header.flags = @ \cup {FDS_PROBE_FAILURE}],
          hdr |-> hdr, st |-> st]
  ELSE
    LET cx == Fault(in, "close_on_exec", index)
        ev1 == IF cx
                 THEN [ev EXCEPT
                         !.header.flags = @ \cup {FLAGS_READ_FAILURE}]
                 ELSE ev
        \* fdset: the word of open_fds
        Word(fdset) ==
          LET w == [fdset |-> fdset,
                    cloexec |-> IF cx THEN {}
                                ELSE WordOf(in.close_on_exec, index),
                    next_bit |-> find_next_bit(fdset, 0),
                    word_index |-> index]
              \* r: what bpf_loop left
              Ret(r) == [ret |-> 0, ev |-> r.ev, hdr |-> r.hdr, st |-> r.st]
          IN IF fdset = {}
               THEN [ret |-> 0, ev |-> ev1, hdr |-> hdr, st |-> st]
               ELSE Ret(loop_fdset_word(0, w, ev1, hdr, st, in))
    IN Word(WordOf(in.open_fds, index))

\* the iterations of bpf_loop(ctx.size, read_fds_impl, &ctx, 0) that do
\* anything: those of a non-zero word of open_fds and those with a failing
\* read (an all-zero word is skipped by the callback)
FdsetIterations(in, size) ==
  {i \in {fd \div BITS_PER_LONG : fd \in in.open_fds}
         \cup {f[2] : f \in {g \in in.flt :
                               g[1] \in {"open_fds", "close_on_exec"}}} :
     i < size}

Min(S) == CHOOSE x \in S : \A y \in S : x <= y

RECURSIVE loop_fds_impl(_, _, _, _, _)
loop_fds_impl(todo, ev, hdr, st, in) ==
  LET \* r: what the callback returned for iteration `index`
      Step(index, r) ==
        IF r.ret = 1 THEN [ev |-> r.ev, hdr |-> r.hdr, st |-> r.st]
        ELSE loop_fds_impl(todo \ {index}, r.ev, r.hdr, r.st, in)
      Iteration(index) == Step(index, read_fds_impl(index, ev, hdr, st, in))
  IN IF todo = {} THEN [ev |-> ev, hdr |-> hdr, st |-> st]
     ELSE Iteration(Min(todo))

\* the size without the cap
FdsetSize_uncapped(max_fds) == max_fds \div BITS_PER_LONG

\* min(max_fds / BITS_PER_LONG, FDSET_SIZE_MAX_IN_LONG)
FdsetSize(max_fds) ==
  LET size == max_fds \div BITS_PER_LONG
  IN IF size > FDSET_SIZE_MAX_IN_LONG THEN FDSET_SIZE_MAX_IN_LONG ELSE size

read_fds(ev, hdr, st, in) ==
  IF \E f \in {"files", "fdt", "fd", "fdt.open_fds", "fdt.close_on_exec",
               "max_fds"} : Fault(in, f, "current")
    \* probe_failure
    THEN [ev |-> [ev EXCEPT !.header.flags = @ \cup {FDS_PROBE_FAILURE}],
          hdr |-> hdr, st |-> st]
    ELSE loop_fds_impl(FdsetIterations(in, FdsetSize(in.max_fds)),
                       ev, hdr, st, in)

\* A vector of string pointers: the strings `items`, then `pad` more
\* pointers to the filler string, then the NULL terminator.
Filler == "p"
Vec(items, pad) == [items |-> items, pad |-> pad]
VecLen(vec) == Len(vec.items) + vec.pad
VecAt(vec, index) ==
  IF index < Len(vec.items) THEN vec.items[index + 1] ELSE Filler

\* if (index == ARGC_MAX - 1): "We hit ARGC_MAX"
hit_argc_max(index) == index = ARGC_MAX - 1

\* an id that is the index within the vector, for argv and envp alike
string_id_of_vector(index, vi, ev) == index

\* entry->header.id = index + ctx->index * event->count[0]
string_id(index, vi, ev) == index + vi * ev.count[1]

(***************************************************************************)
(* argv and envp.                                                          *)
(***************************************************************************)
\* the callback of bpf_loop(ARGC_MAX, read_strings, &reader_ctx, 0); vi is
\* reader_ctx.index (0: argv, 1: envp) and vec the vector it points to
read_strings(index, vi, vec, ev, hdr, st) ==
  IF index < VecLen(vec) /\ VecAt(vec, index) = BadPtr
    THEN [ret |-> 1,
          ev |-> [ev EXCEPT !.header.flags = @ \cup {PTR_READ_FAILURE}],
          hdr |-> hdr, st |-> st]
  ELSE IF index >= VecLen(vec)
    \* argp == NULL: the end of the vector
    THEN [ret |-> 1, ev |-> [ev EXCEPT !.count[vi + 1] = index],
          hdr |-> hdr, st |-> st]
  ELSE
    LET s == VecAt(vec, index)
        h == [hdr EXCEPT
                !.type = STRING_EVENT,
                !.pid = ev.header.pid,
                !.eid = ev.header.eid,
                !.id = string_id(index, vi, ev),
                !.flags = @ \cup (IF s = BadStr THEN {STR_READ_FAILURE}
                                  ELSE IF s = LongStr
                                    THEN {POSSIBLE_TRUNCATION}
                                  ELSE {})]
        rec == [header |-> h, data |-> IF s = BadStr THEN "" ELSE s]
        o == ringbuf_output(st, rec)
        ev1 == IF o.ret < 0
                 THEN [ev EXCEPT !.header.flags = @ \cup {OUTPUT_FAILURE}]
                 ELSE ev
        ev2 == [ev1 EXCEPT !.count[vi + 1] = index + 1]
        ev3 == IF hit_argc_max(index)
                 THEN [ev2 EXCEPT
                         !.header.flags = @ \cup {TOO_MANY_ITEMS}]
                 ELSE ev2
    IN [ret |-> 0, ev |-> ev3, hdr |-> h, st |-> o.st]

\* bpf_loop(ARGC_MAX, read_strings, &reader_ctx, 0) from iteration `index`
\* on.  While the ring has no room and nobody frees it, the iterations
\* over the filler strings differ in the index only: each fails its output,
\* raises OUTPUT_FAILURE and sets the count to index + 1.  All of them but
\* the last one that the loop performs are taken in one stride.
RECURSIVE loop_read_strings(_, _, _, _, _, _)
loop_read_strings(index, vi, vec, ev, hdr, st) ==
  LET \* r: what the callback returned
      Step(r) ==
        IF r.ret = 1 THEN [ev |-> r.ev, hdr |-> r.hdr, st |-> r.st]
        ELSE loop_read_strings(index + 1, vi, vec, r.ev, r.hdr, r.st)
      \* the last iteration that reads a string
      Stride(last) ==
        loop_read_strings(
          last, vi, vec,
          [ev EXCEPT !.header.flags = @ \cup {OUTPUT_FAILURE},
                     !.count[vi + 1] = last],
          [hdr EXCEPT !.type = STRING_EVENT,
                      !.pid = ev.header.pid,
                      !.eid = ev.header.eid,
                      !.id = string_id(last - 1, vi, ev)],
          [st EXCEPT !.lost = @ + (last - index)])
  IN IF index >= ARGC_MAX THEN [ev |-> ev, hdr |-> hdr, st |-> st]
     ELSE IF /\ ~Room(st) /\ ~st.drain
             /\ index >= Len(vec.items)
             /\ index < Min({VecLen(vec), ARGC_MAX}) - 1
       THEN Stride(Min({VecLen(vec), ARGC_MAX}) - 1)
     ELSE Step(read_strings(index, vi, vec, ev, hdr, st))

(***************************************************************************)
(* The tgid closure and the trace decision.                                *)
(***************************************************************************)
\* an insertion that is dropped once the closure has a member
add_tgid_to_closure_dropped(clo, tgid) ==
  [ret |-> 0, clo |-> IF clo = {} THEN {tgid} ELSE clo]

\* bpf_map_update_elem(&tgid_closure, &tgid, &dummy, 0): fails when the map
\* is full and does not hold the key
add_tgid_to_closure(clo, tgid) ==
  IF tgid \notin clo /\ Cardinality(clo) >= ClosureMaxEntries
    THEN [ret |-> -1, clo |-> clo]
    ELSE [ret |-> 0, clo |-> clo \cup {tgid}]

\* task->thread_pid->numbers[level].nr of the task with this pid: its pid in
\* its own (deepest) pid namespace.  The root namespace numbers a task by
\* its pid, the other one differently.
NrOf(pid, ns) ==
  IF ns = "ns_root" THEN pid ELSE ((pid + MaxPid - 2) % MaxPid) + 1

\* should_trace(old_tgid), called by the task `cur` of namespace cur_ns.
\* rf numbers the first of its five kernel reads that fails (0: none).
\* Returns the answer and the closure and tracee_tgid it leaves.
should_trace(old_tgid, cur, cur_ns, rf) ==
  LET same == [ret |-> FALSE, clo |-> tgid_closure, tt |-> tracee_tgid]
  IN IF ~follow_fork THEN [same EXCEPT !.ret = TRUE]
     ELSE IF old_tgid \in tgid_closure THEN [same EXCEPT !.ret = TRUE]
     ELSE IF rf # 0 THEN same
     ELSE IF /\ NrOf(cur, cur_ns) = tracee_pid
             /\ cur_ns = tracee_pidns_inum
       THEN [ret |-> TRUE,
             clo |-> add_tgid_to_closure(tgid_closure, old_tgid).clo,
             tt |-> old_tgid]
     ELSE same

\* the values of rf worth trying: the reads happen only on a closure miss
ReadFailures(old_tgid) ==
  IF follow_fork /\ old_tgid \notin tgid_closure THEN 0..5 ELSE {0}

(***************************************************************************)
(* The RCU read-side critical sections of should_trace and read_fds: what  *)
(* a call does, in order, with the RCU read lock and the ring buffer.      *)
(***************************************************************************)
RcuLock == "rcu_read_lock"
RcuUnlock == "rcu_read_unlock"
RingWrite == "bpf_ringbuf_output"

\* should_trace: rf as above; read 1 (task->nsproxy) is before the lock,
\* reads 2 to 5 are inside, and their failure leaves by err_unlock
should_trace_rcu(old_tgid, rf) ==
  IF ~follow_fork THEN <<>>
  ELSE IF old_tgid \in tgid_closure THEN <<>>
  ELSE IF rf = 1 THEN <<>>
  ELSE IF rf \in 2..5 THEN <<RcuLock, RcuUnlock>>
  ELSE <<RcuLock, RcuUnlock>>

\* the fields of the fdtable read_fds reads inside the lock
FdtReads == {"fdt", "fd", "fdt.open_fds", "fdt.close_on_exec", "max_fds"}

\* a read_fds whose probe_failure_locked_rcu does not unlock
read_fds_rcu_leaky(in) ==
  IF Fault(in, "files", "current") THEN <<>>
  ELSE IF \E f \in FdtReads : Fault(in, f, "current") THEN <<RcuLock>>
  ELSE <<RcuLock, RcuUnlock>>
         \o [i \in 1..Cardinality(in.open_fds) |-> RingWrite]

\* read_fds: current->files is read before the lock (probe_failure), the
\* fdtable inside it (probe_failure_locked_rcu); bpf_loop, which outputs
\* the FD records, runs after the unlock
read_fds_rcu(in) ==
  IF Fault(in, "files", "current") THEN <<>>
  ELSE IF \E f \in FdtReads : Fault(in, f, "current")
    THEN <<RcuLock, RcuUnlock>>
  ELSE <<RcuLock, RcuUnlock>>
         \o [i \in 1..Cardinality(in.open_fds) |-> RingWrite]

\* the account of a call: the nesting depth of the lock, whether an unlock
\* came without a lock, whether the ring was written with the lock held
RcuStart == [depth |-> 0, unmatched |-> FALSE, wrote_locked |-> FALSE]

RcuStep(a, op) ==
  IF op = RcuLock THEN [a EXCEPT !.depth = @ + 1]
  ELSE IF op = RcuUnlock
    THEN IF a.depth = 0 THEN [a EXCEPT !.unmatched = TRUE]
                        ELSE [a EXCEPT !.depth = @ - 1]
  ELSE IF a.depth > 0 THEN [a EXCEPT !.wrote_locked = TRUE]
  ELSE a

RECURSIVE RcuRun(_, _)
RcuRun(ops, a) ==
  IF ops = <<>> THEN a ELSE RcuRun(Tail(ops), RcuStep(a, Head(ops)))

\* the accounts of the calls of should_trace and of read_fds an exec entry
\* probe makes (read_fds only when the exec is traced)
RcuOf(old_tgid, rf, in, traced) ==
  [should_trace |-> RcuRun(should_trace_rcu(old_tgid, rf), RcuStart),
   read_fds |-> IF traced THEN RcuRun(read_fds_rcu(in), RcuStart)
                ELSE RcuStart]


(***************************************************************************)
(* Init                                                                    *)
(***************************************************************************)
\* the kernel's pids of the root tracee and of a process that is running
\* when the tracer starts
RootPid == tracee_pid
OutsiderPid == RootPid + 1

\* a pid no task holds
DeadTask ==
  [alive |-> FALSE, tgid |-> 0, ns |-> "ns_root", desc |-> FALSE,
   execed |-> FALSE, fk |-> 0, exit_code |-> 0, code_read |-> TRUE]

Init ==
  /\ follow_fork \in BOOLEAN
  /\ \E ns \in Namespaces :
       task = [p \in Pids |->
                 IF p = RootPid
                   THEN [DeadTask EXCEPT !.alive = TRUE, !.tgid = p,
                                         !.desc = TRUE]
                 ELSE IF p = OutsiderPid
                   THEN [DeadTask EXCEPT !.alive = TRUE, !.tgid = p,
                                         !.ns = ns]
                 ELSE DeadTask]
  \* the root tracee was forked by the tracer to exec the command: its
  \* first act is the exec (or to exit, when that cannot be done)
  /\ pc = [p \in Pids |-> IF p = RootPid THEN "start" ELSE "idle"]
  /\ ctx = [p \in Pids |-> 0]
  /\ execs = <<>>
  /\ tgid_closure = {}
  /\ event_counter = 0
  /\ drop_counter = 0
  /\ reg = [p \in Pids |-> 0]
  /\ scan = NoScan
  /\ tracee_tgid = 0
  /\ cache = [c \in Cpus |-> empty_header]
  /\ ring = <<>>
  /\ consumed = 0
  /\ hist = <<>>
  /\ forks = <<>>
  /\ nevents = 0
  /\ fault = FALSE

(***************************************************************************)
(* The execs of the main specification.  One execve and one execveat; the  *)
(* second has an open close-on-exec fd and a failing f_pos read.           *)
(***************************************************************************)
InExecve ==
  [is_execveat |-> FALSE, is_compat |-> FALSE, dfd |-> 0, dflags |-> 0,
   argv |-> <<"a">>, envp |-> <<>>, fname |-> "ok", comm_ok |-> TRUE,
   open_fds |-> {}, close_on_exec |-> {}, max_fds |-> 64,
   fd_array |-> <<>>, flt |-> {}, root |-> "d_root",
   pwd |-> [dentry |-> "d_tmp", mnt |-> "mnt0"], drain |-> FALSE,
   argv_pad |-> 0, envp_pad |-> 0,
   \* bpf_get_current_uid_gid(): an unprivileged caller
   uid |-> 1000, gid |-> 100]

InExecveat ==
  [is_execveat |-> TRUE, is_compat |-> FALSE, dfd |-> 3, dflags |-> 4096,
   argv |-> <<>>, envp |-> <<"E">>, fname |-> "ok", comm_ok |-> TRUE,
   open_fds |-> {0}, close_on_exec |-> {0}, max_fds |-> 64,
   fd_array |-> (0 :> "fy"), flt |-> {<<"f_pos", 0>>}, root |-> "d_root",
   pwd |-> [dentry |-> "d_root", mnt |-> "mnt0"], drain |-> FALSE,
   argv_pad |-> 0, envp_pad |-> 0,
   \* called by root
   uid |-> 0, gid |-> 0]

MainInputs == {InExecve, InExecveat}

(***************************************************************************)
(* The exec entry probes: sys_execve, sys_execveat, compat_sys_execveat,   *)
(* all through trace_exec_common.                                          *)
(***************************************************************************)
\* bpf_map_update_elem and bpf_map_delete_elem on a hash map held as a
\* function from its keys
map_update(m, k, v) == [x \in DOMAIN m \cup {k} |-> IF x = k THEN v ELSE m[x]]
map_delete(m, k) == [x \in DOMAIN m \ {k} |-> m[x]]

\* a fetch that does not add
fetch_and_add_lost(counter) == [old |-> counter, new |-> counter]

\* __sync_fetch_and_add(&event_counter, 1)
fetch_and_add(counter) == [old |-> counter, new |-> counter + 1]

\* event->fd = PARM1; event->flags = PARM5, after trace_exec_common, on
\* whatever slot the pid has
execveat_tail(slots, p, in) ==
  IF in.is_execveat /\ p \in DOMAIN slots
    THEN [slots EXCEPT ![p].fd = in.dfd, ![p].flags = in.dflags]
    ELSE slots

\* comm and base_filename (the strings themselves are not modelled, only
\* the flags their reads leave)
read_comm_filename(ev, in) ==
  LET f1 == IF in.comm_ok THEN {} ELSE {COMM_READ_FAILURE}
      f2 == IF in.fname = "fault" THEN {FILENAME_READ_ERR}
            ELSE IF in.fname = "fill" THEN {POSSIBLE_TRUNCATION}
            ELSE {}
  IN [ev EXCEPT !.header.flags = @ \cup f1 \cup f2]

\* trace_exec_common from iteration `index` of the loop over argv on: the
\* rest of argv, envp, the fds and the cwd
trace_exec_from(index, ev, hdr, st, in) ==
  LET \* r3: what read_fds left
      Cwd(r3) ==
        LET ev3 == [r3.ev EXCEPT !.cwd_path_id = -1]
        IN [ev |-> ev3, hdr |-> r3.hdr,
            st |-> IF Fault(in, "fs.pwd", "current") THEN r3.st
                   ELSE read_send_path(fs_pwd(in), ev3.header, AT_FDCWD,
                                       NULL_EVENT, r3.st, in).st]
      \* r2: what the loop over envp left
      Fds(r2) == Cwd(read_fds(r2.ev, r2.hdr, r2.st, in))
      \* r1: what the loop over argv left
      Envp(r1) ==
        Fds(loop_read_strings(0, 1, Vec(in.envp, in.envp_pad), r1.ev, r1.hdr,
                              r1.st))
  IN Envp(loop_read_strings(index, 0, Vec(in.argv, in.argv_pad), ev, hdr,
                            st))

\* the slot trace_exec_common initialises once should_trace has answered
\* yes, before it reads argv
exec_event_init(event, eid, in) ==
  read_comm_filename([event EXCEPT !.header.type = SYSEXIT_EVENT,
                                   !.header.eid = eid,
                                   !.count = <<0, 0>>,
                                   !.fd_count = 0,
                                   !.path_count = 0,
                                   !.is_compat = in.is_compat,
                                   !.is_execveat = in.is_execveat],
                     in)

\* trace_exec_common once should_trace has answered yes: the slot and the
\* staging header it leaves, and the ring
trace_exec_common(event, hdr, in) ==
  LET fa == fetch_and_add(event_counter)
      \* r: what the reads left
      Done(r) == [ev |-> r.ev, hdr |-> r.hdr, st |-> r.st,
                  counter |-> fa.new]
  IN Done(trace_exec_from(0, exec_event_init(event, fa.old, in), hdr,
                          [NewSt EXCEPT !.drain = in.drain], in))

\* index in the ring of the first record a step placed, 0 if none
FirstPlaced(rg) == IF Len(rg) > Len(ring) THEN Len(ring) + 1 ELSE 0

\* the entry of `hist` for an exec entry
NewHist(p, in, slot, traced, eid, rg, lost, clean) ==
  [pid |-> p, in |-> in, tgid |-> task[p].tgid, desc |-> task[p].desc,
   fk |-> task[p].fk, slot |-> slot, traced |-> traced, eid |-> eid,
   first |-> FirstPlaced(rg), nrec |-> Len(rg) - Len(ring), lost |-> lost,
   clean |-> clean, exited |-> FALSE, room |-> FALSE, xclean |-> FALSE,
   sysexits |-> 0, xpos |-> 0, inserted |-> slot, found |-> TRUE,
   rcu |-> [should_trace |-> RcuStart, read_fds |-> RcuStart]]

\* Inputs: what the exec entries of the specification read
sys_enter_exec(p, Inputs) ==
  /\ task[p].alive
  /\ pc[p] \in {"start", "idle"}
  /\ Len(hist) < MaxExecs
  /\ nevents < MaxEvents
  /\ \E cpu \in Cpus, in \in Inputs, rf \in ReadFailures(task[p].tgid) :
       LET tgid == task[p].tgid
           full == Cardinality(DOMAIN execs) >= ExecsMaxEntries
       IN IF p \in DOMAIN execs \/ full
            \* bpf_map_update_elem(..., BPF_NOEXIST) fails
            THEN /\ rf = 0
                 /\ drop_counter' = drop_counter + 1
                 /\ execs' = execveat_tail(execs, p, in)
                 /\ fault' = (fault \/ p \notin DOMAIN execs)
                 /\ hist' = Append(hist, NewHist(p, in, FALSE, FALSE, 0, ring,
                                                 0,
                                                 ~fault'))
                 /\ UNCHANGED <<tgid_closure, tracee_tgid, event_counter,
                                cache, ring, consumed>>
          ELSE
            LET event == [empty_event EXCEPT !.header.pid = p,
                                             !.tgid = tgid]
                s == should_trace(tgid, p, task[p].ns, rf)
                \* r: what the traced body of trace_exec_common left
                Traced(r) ==
                  /\ tgid_closure' = s.clo
                  /\ tracee_tgid' = s.tt
                  /\ event_counter' = r.counter
                  /\ execs' = execveat_tail(map_update(execs, p, r.ev),
                                            p, in)
                  /\ cache' = [cache EXCEPT ![cpu] = r.hdr]
                  /\ ring' = r.st.rg
                  /\ consumed' = r.st.taken
                  /\ fault' = (\/ fault
                               \/ r.st.lost > 0
                               \/ follow_fork /\ tgid \notin s.clo)
                  /\ hist' = Append(hist,
                                    [NewHist(p, in, TRUE, TRUE,
                                             r.ev.header.eid, r.st.rg,
                                             r.st.lost, ~fault')
                                       EXCEPT !.rcu = RcuOf(tgid, rf, in,
                                                            TRUE)])
                  /\ UNCHANGED drop_counter
            IN IF ~s.ret
                 THEN /\ execs' = execveat_tail(map_update(execs, p, event),
                                                p, in)
                      /\ fault' = (fault \/ rf # 0)
                      /\ hist' = Append(hist,
                                        [NewHist(p, in, TRUE, FALSE, 0, ring,
                                                 0, ~fault')
                                           EXCEPT !.rcu = RcuOf(tgid, rf, in,
                                                                FALSE)])
                      /\ UNCHANGED <<tgid_closure, tracee_tgid,
                                     event_counter, drop_counter, cache,
                                     ring, consumed>>
                 ELSE Traced(trace_exec_common(event, cache[cpu], in))
  /\ task' = [task EXCEPT ![p].execed = TRUE]
  /\ pc' = [pc EXCEPT ![p] = "insys"]
  /\ ctx' = [ctx EXCEPT ![p] = Len(hist) + 1]
  /\ nevents' = nevents + 1
  /\ UNCHANGED <<reg, scan>>
  /\ UNCHANGED <<follow_fork, forks>>

(***************************************************************************)
(* An exec entry probe that is preempted.  The fentry programs run with    *)
(* migration disabled, not with preemption disabled: on a preemptible      *)
(* kernel another task can be scheduled on the CPU in the middle of the    *)
(* probe and run probes of its own, which use the same entry of `cache`.   *)
(* One preemption point is modelled: in read_strings for argv[0], after    *)
(* the header of the staging entry is written and before the entry is      *)
(* output.  Whether a probe is preempted there depends on the kernel and   *)
(* on the scheduler; sys_enter_exec is the probe that is not.              *)
(***************************************************************************)
\* entry->header as read_strings writes it for argv[index]
string_header(hdr, ev, index) ==
  [hdr EXCEPT !.type = STRING_EVENT,
              !.pid = ev.header.pid,
              !.eid = ev.header.eid,
              !.id = string_id(index, 0, ev)]

\* the probe of sys_execve up to the preemption point
sys_enter_exec_preempted(p) ==
  /\ task[p].alive
  /\ pc[p] \in {"start", "idle"}
  /\ Len(hist) < MaxExecs
  /\ nevents < MaxEvents
  /\ p \notin DOMAIN execs
  /\ Cardinality(DOMAIN execs) < ExecsMaxEntries
  /\ \E cpu \in Cpus :
       LET tgid == task[p].tgid
           s == should_trace(tgid, p, task[p].ns, 0)
           fa == fetch_and_add(event_counter)
           ev == exec_event_init([empty_event EXCEPT !.header.pid = p,
                                                     !.tgid = tgid],
                                 fa.old, InExecve)
       IN /\ s.ret
          /\ tgid_closure' = s.clo
          /\ tracee_tgid' = s.tt
          /\ event_counter' = fa.new
          /\ execs' = map_update(execs, p, ev)
          /\ cache' = [cache EXCEPT ![cpu] = string_header(@, ev, 0)]
          /\ fault' = (fault \/ (follow_fork /\ tgid \notin s.clo))
          /\ hist' = Append(hist, NewHist(p, InExecve, TRUE, TRUE, fa.old,
                                          ring, 0, ~fault'))
  /\ task' = [task EXCEPT ![p].execed = TRUE]
  /\ pc' = [pc EXCEPT ![p] = "preempted"]
  /\ ctx' = [ctx EXCEPT ![p] = Len(hist) + 1]
  /\ nevents' = nevents + 1
  /\ UNCHANGED <<reg, scan>>
  /\ UNCHANGED <<follow_fork, drop_counter, ring, consumed, forks>>

\* the probe runs again: it outputs the staging entry as it is now and goes
\* on with the rest of argv, envp, the fds and the cwd.  The bytes of the
\* entry are the probe's own string if nothing has written the entry since.
sys_enter_exec_resumed(p) ==
  /\ task[p].alive
  /\ pc[p] = "preempted"
  /\ p \in DOMAIN execs
  /\ \E cpu \in Cpus :
       LET g == ctx[p]
           in == hist[g].in
           ev == execs[p]
           entry == [header |-> cache[cpu],
                     data |-> IF cache[cpu] = string_header(cache[cpu], ev, 0)
                                THEN VecAt(Vec(in.argv, in.argv_pad), 0)
                                ELSE STALE]
           o == ringbuf_output(NewSt, entry)
           ev1 == [ev EXCEPT !.header.flags =
                               IF o.ret < 0 THEN @ \cup {OUTPUT_FAILURE}
                               ELSE @,
                             !.count[1] = 1]
           \* r: what the rest of the probe left
           Rest(r) ==
             /\ execs' = [execs EXCEPT ![p] = r.ev]
             /\ cache' = [cache EXCEPT ![cpu] = r.hdr]
             /\ ring' = r.st.rg
             /\ consumed' = r.st.taken
             /\ fault' = (fault \/ r.st.lost > 0)
             /\ hist' = [hist EXCEPT ![g].first = FirstPlaced(r.st.rg),
                                     ![g].nrec = Len(r.st.rg) - Len(ring),
                                     ![g].lost = r.st.lost]
       IN Rest(trace_exec_from(1, ev1, cache[cpu], o.st, in))
  /\ pc' = [pc EXCEPT ![p] = "insys"]
  /\ UNCHANGED <<reg, scan>>
  /\ UNCHANGED <<follow_fork, task, ctx, tgid_closure, event_counter,
                 drop_counter, tracee_tgid, forks, nevents>>

(***************************************************************************)
(* The exec exit probes (sys_exit_execve, sys_exit_execveat and the compat *)
(* ones), all tp_sys_exit_exec.  When the exec of a thread that is not the *)
(* group leader succeeds, the kernel has killed the other threads and the  *)
(* thread has taken over the leader's pid by the time the probe runs.      *)
(***************************************************************************)
SysRets == {0, -2}

\* the other threads of p's process
OtherThreads(p) ==
  {q \in Pids \ {p} : task[q].alive /\ task[q].tgid = task[p].tgid}

\* the exec entry whose slot the execs map holds under this pid
SlotOwner(pid) ==
  CHOOSE g \in 1..Len(hist) : hist[g].pid = pid /\ hist[g].slot

\* an exit probe that does not ask should_trace again
tp_sys_exit_exec_unchecked(pid, ns, sysret, rf) ==
  LET event == execs[pid]
      rec == [event EXCEPT !.ret = sysret, !.header.type = SYSEXIT_EVENT]
      out == ringbuf_output(NewSt, rec)
  IN [traced |-> TRUE, clo |-> tgid_closure, tt |-> tracee_tgid,
      rg |-> out.st.rg, sent |-> out.ret = 0,
      slots |-> map_delete(execs, pid)]

\* tp_sys_exit_exec run by the task that now has this pid, once the slot is
\* found; rf as in should_trace
tp_sys_exit_exec(pid, ns, sysret, rf) ==
  LET event == execs[pid]
      s == should_trace(event.tgid, pid, ns, rf)
      rec == [event EXCEPT !.ret = sysret, !.header.type = SYSEXIT_EVENT]
      out == ringbuf_output(NewSt, rec)
  IN [traced |-> s.ret, clo |-> s.clo, tt |-> s.tt,
      rg |-> IF s.ret THEN out.st.rg ELSE ring,
      sent |-> s.ret /\ out.ret = 0,
      slots |-> map_delete(execs, pid)]

sys_exit_exec(p) ==
  /\ task[p].alive
  /\ pc[p] = "insys"
  /\ \E sysret \in SysRets :
       /\ sysret = 0 => OtherThreads(p) = {}
       /\ LET \* bpf_get_current_pid_tgid()
              pid == IF sysret = 0 THEN task[p].tgid ELSE p
              g == ctx[p]
              h1 == [hist EXCEPT ![g].exited = TRUE,
                                 ![g].room = HasRoom(ring),
                                 ![g].xclean = ~fault']
          IN /\ task' = IF pid = p THEN task
                        ELSE [task EXCEPT ![pid] = task[p], ![p] = DeadTask]
             /\ pc' = [pc EXCEPT ![p] = "idle", ![pid] = "idle"]
             /\ ctx' = [ctx EXCEPT ![p] = 0]
             /\ IF pid \notin DOMAIN execs
                  THEN /\ drop_counter' = drop_counter + 1
                       /\ fault' = fault
                       /\ hist' = [h1 EXCEPT ![g].found = FALSE]
                       /\ UNCHANGED <<execs, tgid_closure, tracee_tgid, ring>>
                  ELSE
                    \E rf \in ReadFailures(execs[pid].tgid) :
                      LET r == tp_sys_exit_exec(pid, task[p].ns, sysret, rf)
                          o == SlotOwner(pid)
                      IN /\ execs' = r.slots
                         /\ tgid_closure' = r.clo
                         /\ tracee_tgid' = r.tt
                         /\ ring' = r.rg
                         /\ fault' = (\/ fault
                                      \/ rf # 0
                                      \/ r.traced /\ ~r.sent
                                      \/ /\ r.traced
                                         /\ follow_fork
                                         /\ execs[pid].tgid \notin r.clo)
                         /\ hist' = [h1 EXCEPT
                                       ![o].slot = FALSE,
                                       ![o].sysexits =
                                          @ + (IF r.sent THEN 1 ELSE 0),
                                       ![o].xpos =
                                          IF r.sent THEN Len(r.rg) ELSE @]
                         /\ UNCHANGED drop_counter
  /\ UNCHANGED <<reg, scan>>
  /\ UNCHANGED <<follow_fork, event_counter, cache, consumed, forks,
                 nevents>>

(***************************************************************************)
(* drop_counter++ and drop_counter += 1 are plain read-modify-writes of a  *)
(* global: a load, an add and a store.  Probes run concurrently on         *)
(* different CPUs, so the load and the store of one increment are two      *)
(* steps, between which probes of other tasks run.  sys_enter_exec and     *)
(* sys_exit_exec are the increments nothing comes between.                 *)
(***************************************************************************)
\* the entry probe, from its start to the load of drop_counter after
\* bpf_map_update_elem(..., BPF_NOEXIST) has failed
drop_counter_load_enter(p) ==
  /\ task[p].alive
  /\ pc[p] \in {"start", "idle"}
  /\ Len(hist) < MaxExecs
  /\ nevents < MaxEvents
  /\ p \in DOMAIN execs \/ Cardinality(DOMAIN execs) >= ExecsMaxEntries
  /\ UNCHANGED scan
  /\ reg' = [reg EXCEPT ![p] = drop_counter]
  /\ fault' = (fault \/ p \notin DOMAIN execs)
  /\ hist' = Append(hist, NewHist(p, InExecve, FALSE, FALSE, 0, ring, 0,
                                  ~fault'))
  /\ task' = [task EXCEPT ![p].execed = TRUE]
  /\ pc' = [pc EXCEPT ![p] = "drop_enter"]
  /\ ctx' = [ctx EXCEPT ![p] = Len(hist) + 1]
  /\ nevents' = nevents + 1
  /\ UNCHANGED <<follow_fork, execs, tgid_closure, event_counter,
                 drop_counter, tracee_tgid, cache, ring, consumed, forks>>

\* the store of that increment, and the rest of the entry probe
drop_counter_store_enter(p) ==
  /\ pc[p] = "drop_enter"
  /\ drop_counter' = reg[p] + 1
  /\ UNCHANGED scan
  /\ reg' = [reg EXCEPT ![p] = 0]
  /\ execs' = execveat_tail(execs, p, hist[ctx[p]].in)
  /\ pc' = [pc EXCEPT ![p] = "insys"]
  /\ UNCHANGED <<follow_fork, task, ctx, tgid_closure, event_counter,
                 tracee_tgid, cache, ring, consumed, hist, forks, nevents,
                 fault>>

\* the exit probe of an exec that has failed (the task keeps its pid), up
\* to the load of drop_counter after bpf_map_lookup_elem has found no slot
drop_counter_load_exit(p) ==
  /\ task[p].alive
  /\ pc[p] = "insys"
  /\ p \notin DOMAIN execs
  /\ UNCHANGED scan
  /\ reg' = [reg EXCEPT ![p] = drop_counter]
  /\ hist' = [hist EXCEPT ![ctx[p]].found = FALSE]
  /\ pc' = [pc EXCEPT ![p] = "drop_exit"]
  /\ UNCHANGED <<follow_fork, task, ctx, execs, tgid_closure, event_counter,
                 drop_counter, tracee_tgid, cache, ring, consumed, forks,
                 nevents, fault>>

\* the store of that increment, and the return of the exit probe
drop_counter_store_exit(p) ==
  /\ pc[p] = "drop_exit"
  /\ drop_counter' = reg[p] + 1
  /\ UNCHANGED scan
  /\ reg' = [reg EXCEPT ![p] = 0]
  /\ hist' = [hist EXCEPT ![ctx[p]].exited = TRUE,
                          ![ctx[p]].room = HasRoom(ring),
                          ![ctx[p]].xclean = ~fault]
  /\ pc' = [pc EXCEPT ![p] = "idle"]
  /\ ctx' = [ctx EXCEPT ![p] = 0]
  /\ UNCHANGED <<follow_fork, task, execs, tgid_closure, event_counter,
                 tracee_tgid, cache, ring, consumed, forks, nevents, fault>>

(***************************************************************************)
(* fork and clone: the kernel creates the task and runs trace_fork.        *)
(***************************************************************************)
\* a test that takes every task for a thread-group leader
whole_process_any(pid, tgid) == TRUE

\* pid == tgid: the task is the leader of its thread group, and its fork or
\* exit that of a whole process
whole_process(pid, tgid) == pid = tgid

\* a pid the kernel can hand out: no live task has it as pid or as tgid
FreePid(c) ==
  /\ ~task[c].alive
  /\ \A q \in Pids : task[q].alive => task[q].tgid # c

\* rd numbers the first of the probe's three reads that fails (0: none):
\* child->pid, child->tgid, parent->tgid
\* bpf_map_update_elem can also fail while the map has room: -EBUSY when the
\* bucket's lock is already taken on this CPU, -ENOMEM when the element
\* cannot be allocated
add_tgid_to_closure_busy(clo, tgid) ==
  IF tgid \in clo THEN [ret |-> 0, clo |-> clo]
                  ELSE [ret |-> -1, clo |-> clo]

\* busy: bpf_map_update_elem fails that way in add_tgid_to_closure(pid)
trace_fork_with(p, busy) ==
  /\ task[p].alive
  /\ pc[p] = "idle"
  /\ nevents < MaxEvents
  /\ \E c \in Pids, thread \in BOOLEAN, cpu \in Cpus, rd \in 0..3 :
       /\ FreePid(c)
       /\ LET pid == c
              tgid == IF thread THEN task[p].tgid ELSE c
              parent_tgid == task[p].tgid
              child == IF thread THEN task[p]
                       ELSE [task[p] EXCEPT !.tgid = c, !.execed = FALSE,
                                            !.fk = Len(forks) + 1]
              \* history: the fork of a whole process
              Log(clo, rg, clean) ==
                IF thread THEN forks
                ELSE Append(forks,
                            [child |-> c, parent_tgid |-> parent_tgid,
                             follow |-> follow_fork,
                             parent_in |-> parent_tgid \in tgid_closure,
                             child_in |-> c \in clo,
                             pos |-> FirstPlaced(rg),
                             clean |-> clean])
          IN /\ task' = [task EXCEPT ![c] = child]
             /\ pc' = [pc EXCEPT ![c] = "idle"]
             /\ IF rd \in {1, 2} \/ ~whole_process(pid, tgid) \/ rd = 3
                  THEN /\ thread => rd # 3
                       /\ fault' = (fault \/ rd # 0)
                       /\ forks' = Log(tgid_closure, ring, rd = 0)
                       /\ UNCHANGED <<tgid_closure, tracee_tgid, cache, ring>>
                  ELSE
                    \E rf \in ReadFailures(parent_tgid) :
                      LET s == should_trace(parent_tgid, p, task[p].ns, rf)
                          a == IF busy
                                 THEN add_tgid_to_closure_busy(s.clo, pid)
                                 ELSE add_tgid_to_closure(s.clo, pid)
                          hdr == [cache[cpu] EXCEPT !.type = FORK_EVENT,
                                                    !.flags = {},
                                                    !.pid = pid]
                          rec == [header |-> hdr,
                                  parent_tgid |-> parent_tgid]
                          out == ringbuf_output(NewSt, rec)
                      IN IF ~s.ret
                           THEN /\ fault' = (fault \/ rf # 0)
                                /\ forks' = Log(tgid_closure, ring, rf = 0)
                                /\ UNCHANGED <<tgid_closure, tracee_tgid,
                                               cache, ring>>
                           ELSE /\ tgid_closure' = a.clo
                                /\ tracee_tgid' = s.tt
                                /\ cache' = [cache EXCEPT ![cpu] = hdr]
                                /\ ring' = out.st.rg
                                /\ fault' = (\/ fault
                                             \/ a.ret < 0
                                             \/ out.ret < 0
                                             \/ /\ follow_fork
                                                /\ parent_tgid \notin s.clo)
                                /\ forks' = Log(a.clo, out.st.rg,
                                                a.ret = 0 /\ out.ret = 0)
  /\ nevents' = nevents + 1
  /\ UNCHANGED <<reg, scan>>
  /\ UNCHANGED <<follow_fork, ctx, execs, event_counter, drop_counter,
                 consumed, hist>>

trace_fork(p) == trace_fork_with(p, FALSE)

\* the fork probe when the insertion of the child fails that way
trace_fork_busy(p) == trace_fork_with(p, TRUE)

(***************************************************************************)
(* exit of a task: the kernel runs handle_exit (sched_process_exit) in the *)
(* exiting task.  A task inside exec leaves the syscall before it exits.   *)
(***************************************************************************)
\* raw exit statuses: exit(3), and death by signal 9
ExitCodes == {768, 9}

\* code and sig taken from the wrong halves of the status
exit_event_swapped(hdr, pid, tgid, exit_code) ==
  [header |-> [hdr EXCEPT !.type = EXIT_EVENT, !.pid = pid, !.flags = {}],
   code |-> exit_code % 256,
   sig |-> exit_code \div 256,
   is_root_tracee |-> (tgid = tracee_tgid)]

\* the exit_event handle_exit builds in the staging entry
exit_event(hdr, pid, tgid, exit_code) ==
  [header |-> [hdr EXCEPT !.type = EXIT_EVENT, !.pid = pid, !.flags = {}],
   code |-> exit_code \div 256,
   sig |-> exit_code % 256,
   is_root_tracee |-> (tgid = tracee_tgid)]

\* rd: the read of current->exit_code fails
handle_exit(p) ==
  /\ task[p].alive
  /\ pc[p] \in {"start", "idle"}
  /\ nevents < MaxEvents
  /\ \E r \in ExitCodes, cpu \in Cpus, rd \in BOOLEAN :
       LET pid == p
           tgid == task[p].tgid
           rec == exit_event(cache[cpu], pid, tgid, r)
           out == ringbuf_output(NewSt, rec)
       IN /\ task' = [task EXCEPT ![p] = [DeadTask EXCEPT
                                            !.exit_code = r,
                                            !.code_read = ~rd]]
          /\ pc' = [pc EXCEPT ![p] = "idle"]
          /\ IF \/ ~whole_process(pid, tgid)
                \/ (tgid \notin tgid_closure /\ follow_fork)
               THEN /\ ~rd
                    /\ UNCHANGED <<tgid_closure, cache, ring, fault>>
               ELSE /\ tgid_closure' = tgid_closure \ {tgid}
                    /\ cache' = [cache EXCEPT ![cpu] = rec.header]
                    /\ IF rd
                         THEN UNCHANGED ring
                         ELSE ring' = out.st.rg
                    /\ fault' = (fault \/ rd \/ out.ret < 0)
  /\ nevents' = nevents + 1
  /\ UNCHANGED <<reg, scan>>
  /\ UNCHANGED <<follow_fork, ctx, execs, event_counter, drop_counter,
                 tracee_tgid, consumed, hist, forks>>

(***************************************************************************)
(* The user-space consumer drains the ring buffer.                         *)
(***************************************************************************)
consume ==
  /\ consumed < Len(ring)
  /\ consumed' = Len(ring)
  /\ UNCHANGED <<reg, scan>>
  /\ UNCHANGED <<follow_fork, task, pc, ctx, execs, tgid_closure,
                 event_counter, drop_counter, tracee_tgid, cache, ring, hist,
                 forks, nevents, fault>>

Next ==
  \/ \E p \in Pids : sys_enter_exec(p, MainInputs)
  \/ \E p \in Pids : sys_exit_exec(p)
  \/ \E p \in Pids : trace_fork(p)
  \/ \E p \in Pids : handle_exit(p)
  \/ consume

Spec == Init /\ [][Next]_vars

(***************************************************************************)
(* A second specification for the fd-table walk: the same probes, with     *)
(* exec entries that differ in the fd table they find.  Every fd is open   *)
(* on the root directory, so that it costs two records (PATH and FD).      *)
(***************************************************************************)
\* the largest fd table here: twice what read_fds scans
MaxFdsLarge == 2 * FDSET_SIZE_MAX_IN_LONG * BITS_PER_LONG

FdSets ==
  {{}, {0}, {0, 1, 63}, {63, 64}, {2, 16777215}, {16777216},
   {0, 16777216, 16777280}, {0, 1, 2, 3}}

\* max_fds is a multiple of BITS_PER_LONG above every open fd
FdInput(open, cloexec) ==
  [InExecve EXCEPT
     !.argv = <<>>,
     !.open_fds = open,
     !.close_on_exec = cloexec,
     !.max_fds = IF \A fd \in open : fd < BITS_PER_LONG
                   THEN BITS_PER_LONG
                 ELSE IF \A fd \in open : fd < 2 * BITS_PER_LONG
                   THEN 2 * BITS_PER_LONG
                 ELSE MaxFdsLarge,
     !.fd_array = [fd \in open |-> "fr"],
     !.pwd = [dentry |-> "d_root", mnt |-> "mnt0"]]

\* fd 0 is open on the file fc, with its close-on-exec bit set or clear
FdInputOnFc(cloexec) ==
  [FdInput({0, 1}, cloexec) EXCEPT !.fd_array = (0 :> "fc" @@ 1 :> "fr")]

FdInputs ==
  {FdInput(open, {}) : open \in FdSets}
    \cup {FdInput({0, 1, 63}, {1}), FdInputOnFc({}), FdInputOnFc({0})}

NextFds ==
  \/ \E p \in Pids : sys_enter_exec(p, FdInputs)
  \/ \E p \in Pids : sys_exit_exec(p)
  \/ consume

SpecFds == Init /\ [][NextFds]_vars

(***************************************************************************)
(* A third specification, for the path walk: execs with one or two open    *)
(* fds on files below a directory and across a mount, failing kernel       *)
(* reads, an fs-root that is not the root of the mount forest, and a       *)
(* consumer that frees the ring while the probe runs.                      *)
(***************************************************************************)
PathInput(fd_array, root, flt, drain) ==
  [InExecve EXCEPT
     !.argv = <<>>,
     !.open_fds = DOMAIN fd_array,
     !.fd_array = fd_array,
     !.root = root,
     !.flt = flt,
     !.drain = drain,
     !.pwd = [dentry |-> "d_root", mnt |-> "mnt0"]]

PathInputs ==
  {PathInput(0 :> "fx", "d_root", {}, FALSE),
   PathInput(0 :> "fy", "d_root", {}, FALSE),
   PathInput(0 :> "fr" @@ 1 :> "fy", "d_root", {}, FALSE),
   PathInput(0 :> "fx", "d_root", {}, TRUE),
   PathInput(0 :> "fx", "d_root", {<<"d_parent", "d_x">>}, FALSE),
   PathInput(0 :> "fy", "d_root", {<<"d_parent", "m1_y">>}, FALSE),
   PathInput(0 :> "fy", "d_root", {<<"mnt_parent", "mnt1">>}, FALSE),
   PathInput(0 :> "fx", "d_root", {<<"mnt_root", "mnt0">>}, FALSE),
   PathInput(0 :> "fx", "d_root", {<<"f_path", 0>>}, FALSE),
   \* chroot into /tmp before and after the mount on /tmp
   PathInput(0 :> "fx", "d_tmp", {}, FALSE),
   PathInput(0 :> "fy", "m1_root", {}, FALSE)}

NextPaths ==
  \/ \E p \in Pids : sys_enter_exec(p, PathInputs)
  \/ \E p \in Pids : sys_exit_exec(p)
  \/ consume

SpecPaths == Init /\ [][NextPaths]_vars

(***************************************************************************)
(* A fourth specification, for argv and envp: vectors of up to three       *)
(* strings, pointers and strings that cannot be read, strings that fill    *)
(* the buffer, and a consumer that frees the ring while the probe runs.    *)
(***************************************************************************)
StringInput(argv, envp, drain) ==
  [InExecve EXCEPT
     !.argv = argv,
     !.envp = envp,
     !.drain = drain,
     !.pwd = [dentry |-> "d_root", mnt |-> "mnt0"]]

\* argv is "a" and then argv_pad filler strings, envp is "E" and then
\* envp_pad filler strings
LongInput(argv_pad, envp_pad) ==
  [StringInput(<<"a">>, <<"E">>, FALSE) EXCEPT !.argv_pad = argv_pad,
                                              !.envp_pad = envp_pad]

StringInputs ==
  {StringInput(<<"a", "b">>, <<"E", "F">>, FALSE),
   StringInput(<<"a", "b">>, <<"E", "F">>, TRUE),
   StringInput(<<"a", BadPtr, "c">>, <<"E">>, FALSE),
   StringInput(<<"a", BadPtr>>, <<"E", "F">>, TRUE),
   StringInput(<<BadPtr>>, <<"E", BadPtr>>, FALSE),
   StringInput(<<BadStr, "b">>, <<"E">>, FALSE),
   StringInput(<<"a">>, <<LongStr, "F">>, FALSE),
   StringInput(<<>>, <<>>, FALSE),
   LongInput(ARGC_MAX - 2, 0), LongInput(ARGC_MAX - 1, 0),
   LongInput(ARGC_MAX, 0), LongInput(0, ARGC_MAX - 1)}

NextStrings ==
  \/ \E p \in Pids : sys_enter_exec(p, StringInputs)
  \/ \E p \in Pids : sys_exit_exec(p)
  \/ consume

SpecStrings == Init /\ [][NextStrings]_vars

(***************************************************************************)
(* A fifth specification, for the slots of the execs map.  It starts later *)
(* in the life of the tracer than Init, with follow_fork off: the root     *)
(* tracee has done its first exec (eid 0), the consumer has taken its      *)
(* records, the task that had the other pid has exited, and the root       *)
(* tracee has started a second thread with that pid.  The history starts   *)
(* empty there.                                                            *)
(***************************************************************************)
InitThreaded ==
  /\ follow_fork = FALSE
  /\ task = [p \in Pids |->
               IF p \in {RootPid, OutsiderPid}
                 THEN [DeadTask EXCEPT !.alive = TRUE, !.tgid = RootPid,
                                       !.desc = TRUE, !.execed = TRUE]
                 ELSE DeadTask]
  /\ pc = [p \in Pids |-> "idle"]
  /\ ctx = [p \in Pids |-> 0]
  /\ execs = <<>>
  /\ tgid_closure = {}
  /\ event_counter = 1
  /\ drop_counter = 0
  /\ reg = [p \in Pids |-> 0]
  /\ scan = NoScan
  /\ tracee_tgid = 0
  \* the last record built was the EXIT record of the task that exited
  /\ cache = [c \in Cpus |-> [empty_header EXCEPT !.pid = OutsiderPid,
                                                  !.type = EXIT_EVENT]]
  /\ ring = <<>>
  /\ consumed = 0
  /\ hist = <<>>
  /\ forks = <<>>
  /\ nevents = 0
  /\ fault = FALSE

SpecSlots == InitThreaded /\ [][Next]_vars

(***************************************************************************)
(* A sixth specification, for probes that preempt one another on a CPU:    *)
(* the probes of Next, and an exec entry probe that is preempted.          *)
(***************************************************************************)
NextPreempt ==
  \/ \E p \in Pids : sys_enter_exec(p, {InExecve})
  \/ \E p \in Pids : sys_enter_exec_preempted(p)
  \/ \E p \in Pids : sys_enter_exec_resumed(p)
  \/ \E p \in Pids : sys_exit_exec(p)
  \/ \E p \in Pids : trace_fork(p)
  \/ \E p \in Pids : handle_exit(p)
  \/ consume

SpecPreempt == Init /\ [][NextPreempt]_vars

(***************************************************************************)
(* The specification of the closure: the probes, with the fork probe also  *)
(* when its insertion into tgid_closure fails.                             *)
(***************************************************************************)
NextClosure ==
  \/ \E p \in Pids : sys_enter_exec(p, {InExecve})
  \/ \E p \in Pids : sys_exit_exec(p)
  \/ \E p \in Pids : trace_fork(p)
  \/ \E p \in Pids : trace_fork_busy(p)
  \/ \E p \in Pids : handle_exit(p)
  \/ consume

SpecClosure == Init /\ [][NextClosure]_vars

(***************************************************************************)
(* The specification of drop_counter.  Every exec of the system inserts a  *)
(* slot at its entry, traced or not: at the start the execs map is full of *)
(* the slots of tasks other than those of Pids, which stay inside their    *)
(* execs.  The tasks of Pids run on different CPUs.                        *)
(***************************************************************************)
OtherExecs ==
  [q \in (MaxPid + 1)..(MaxPid + ExecsMaxEntries) |->
     [empty_event EXCEPT !.header.pid = q, !.tgid = q]]

InitFull ==
  /\ follow_fork \in BOOLEAN
  /\ task = [p \in Pids |->
               IF p = RootPid
                 THEN [DeadTask EXCEPT !.alive = TRUE, !.tgid = p,
                                       !.desc = TRUE]
               ELSE IF p = OutsiderPid
                 THEN [DeadTask EXCEPT !.alive = TRUE, !.tgid = p]
               ELSE DeadTask]
  /\ pc = [p \in Pids |-> IF p = RootPid THEN "start" ELSE "idle"]
  /\ ctx = [p \in Pids |-> 0]
  /\ execs = OtherExecs
  /\ tgid_closure = {}
  /\ event_counter = 0
  /\ drop_counter = 0
  /\ reg = [p \in Pids |-> 0]
  /\ scan = NoScan
  /\ tracee_tgid = 0
  /\ cache = [c \in Cpus |-> empty_header]
  /\ ring = <<>>
  /\ consumed = 0
  /\ hist = <<>>
  /\ forks = <<>>
  /\ nevents = 0
  /\ fault = FALSE

NextDrops ==
  \/ \E p \in Pids : sys_enter_exec(p, {InExecve})
  \/ \E p \in Pids : sys_exit_exec(p)
  \/ \E p \in Pids : drop_counter_load_enter(p)
  \/ \E p \in Pids : drop_counter_store_enter(p)
  \/ \E p \in Pids : drop_counter_load_exit(p)
  \/ \E p \in Pids : drop_counter_store_exit(p)
  \/ \E p \in Pids : trace_fork(p)
  \/ \E p \in Pids : handle_exit(p)
  \/ consume

SpecDrops == InitFull /\ [][NextDrops]_vars

(***************************************************************************)
(* The specification of the RCU sections: execs with an open fd whose      *)
(* reads of current->files and of the fdtable fail, one at a time.         *)
(***************************************************************************)
RcuInputs ==
  {FdInput({0}, {})}
    \cup {[FdInput({0}, {}) EXCEPT !.flt = {<<f, "current">>}] :
            f \in {"files"} \cup FdtReads}

NextRcu ==
  \/ \E p \in Pids : sys_enter_exec(p, RcuInputs)
  \/ \E p \in Pids : sys_exit_exec(p)
  \/ consume

SpecRcu == Init /\ [][NextRcu]_vars

(***************************************************************************)
(* The specification of the scan of one word of open_fds: the part of      *)
(* read_fds_impl from the test of the word on, and read_fdset_word under   *)
(* bpf_loop(BITS_PER_LONG, ...), with _read_fd reduced to the bit it is    *)
(* given.  The words: every combination of the bits next to the ends and   *)
(* to the middle of the word, every single bit, the halves and the full    *)
(* word.                                                                   *)
(***************************************************************************)
ScanWords ==
  SUBSET {0, 1, 31, 32, 33, 63}
    \cup {{b} : b \in 0..(BITS_PER_LONG - 1)}
    \cup {0..31, 32..63, 0..(BITS_PER_LONG - 1)}

InitBits ==
  /\ scan \in {[NoScan EXCEPT !.fdset = w, !.at = "word"] : w \in ScanWords}
  /\ follow_fork = FALSE
  /\ task = [p \in Pids |->
               IF p = RootPid
                 THEN [DeadTask EXCEPT !.alive = TRUE, !.tgid = p,
                                       !.desc = TRUE]
               ELSE DeadTask]
  /\ pc = [p \in Pids |-> IF p = RootPid THEN "start" ELSE "idle"]
  /\ ctx = [p \in Pids |-> 0]
  /\ execs = <<>>
  /\ tgid_closure = {}
  /\ event_counter = 0
  /\ drop_counter = 0
  /\ reg = [p \in Pids |-> 0]
  /\ tracee_tgid = 0
  /\ cache = [c \in Cpus |-> empty_header]
  /\ ring = <<>>
  /\ consumed = 0
  /\ hist = <<>>
  /\ forks = <<>>
  /\ nevents = 0
  /\ fault = FALSE

\* read_fds_impl: if (subctx.fdset == 0) return 0;
\* subctx.next_bit = find_next_bit(subctx.fdset, 0); bpf_loop(...)
scan_word ==
  /\ scan.at = "word"
  /\ scan' = IF scan.fdset = {}
               THEN [scan EXCEPT !.at = "done"]
               ELSE [scan EXCEPT !.next_bit = find_next_bit(scan.fdset, 0),
                                 !.at = "loop"]
  /\ UNCHANGED probe_vars

\* one call of read_fdset_word by bpf_loop: return 1 ends the loop
scan_read_fdset_word ==
  /\ scan.at = "loop"
  /\ scan.index < BITS_PER_LONG
  /\ scan' = IF scan.next_bit = BITS_PER_LONG
               THEN [scan EXCEPT !.at = "done"]
               ELSE [scan EXCEPT
                       !.visited = Append(@, scan.next_bit),
                       !.next_bit = find_next_bit(scan.fdset,
                                                  scan.next_bit + 1),
                       !.index = @ + 1]
  /\ UNCHANGED probe_vars

\* bpf_loop has made its BITS_PER_LONG calls
scan_loop_end ==
  /\ scan.at = "loop"
  /\ scan.index >= BITS_PER_LONG
  /\ scan' = [scan EXCEPT !.at = "done"]
  /\ UNCHANGED probe_vars

NextBits == scan_word \/ scan_read_fdset_word \/ scan_loop_end

SpecBits == InitBits /\ [][NextBits]_vars

(***************************************************************************)
(* Properties.                                                             *)
(***************************************************************************)
RingIdx == 1..Len(ring)
HistIdx == 1..Len(hist)
ForkIdx == 1..Len(forks)
SubEventTypes == {STRING_EVENT, FD_EVENT, PATH_SEGMENT_EVENT, PATH_EVENT}

\* positions of the SYSEXIT records carrying this eid
SysexitsOf(eid) ==
  {i \in RingIdx : /\ ring[i].header.type = SYSEXIT_EVENT
                   /\ ring[i].header.eid = eid}

\* positions of the EXIT records with is_root_tracee set
RootExits ==
  {i \in RingIdx : /\ ring[i].header.type = EXIT_EVENT
                   /\ ring[i].is_root_tracee}

\* C1: no two traced exec entries receive the same eid, and eids strictly
\* increase in the order in which the entries were assigned them.
C1_EidUniqueIncreasing ==
  \A i, j \in HistIdx :
    (i < j /\ hist[i].traced /\ hist[j].traced)
      => hist[i].eid < hist[j].eid

\* two traced exec entries are in flight at once
C1_Witness ==
  /\ Len(hist) = 2
  /\ hist[1].traced /\ hist[2].traced
  /\ ~hist[1].exited /\ ~hist[2].exited

\* C2, as stated: every traced exec entry whose exit probe has run with room
\* in the ring buffer has exactly one SYSEXIT carrying its eid, and the slot
\* of an entry that was not traced emits no SYSEXIT.  (Restricted to runs in
\* which no kernel read, map insertion or ring write has failed.)
C2_SysexitOneToOne ==
  \A g \in HistIdx :
    /\ (hist[g].traced /\ hist[g].exited /\ hist[g].room /\ hist[g].xclean)
         => Cardinality(SysexitsOf(hist[g].eid)) = 1
    /\ (~hist[g].traced /\ hist[g].clean /\ (hist[g].exited => hist[g].xclean))
         => hist[g].sysexits = 0

\* C3: a sub-event record never follows the SYSEXIT record of its eid on
\* the ring buffer.
C3_SysexitLast ==
  \A i, j \in RingIdx :
    (/\ i < j
     /\ ring[i].header.type = SYSEXIT_EVENT
     /\ ring[j].header.type \in SubEventTypes)
      => ring[j].header.eid # ring[i].header.eid

\* a SYSEXIT preceded by sub-events of its eid and followed by records of
\* another exec
C3_Witness ==
  \E i, j, k \in RingIdx :
    /\ i < j /\ j < k
    /\ ring[j].header.type = SYSEXIT_EVENT
    /\ ring[i].header.type \in SubEventTypes
    /\ ring[i].header.eid = ring[j].header.eid
    /\ ring[k].header.type \in SubEventTypes

\* C4, as stated: with follow_fork on, every exec entry of the root tracee
\* or of a process descended from it is traced and, once its exit probe has
\* run with room in the ring buffer, has emitted its SYSEXIT.  (Restricted
\* to runs in which no kernel read, map insertion or ring write has failed.)
C4_DescendantsTraced ==
  \A g \in HistIdx :
    (follow_fork /\ hist[g].desc /\ hist[g].clean)
      => /\ hist[g].traced
         /\ (hist[g].exited /\ hist[g].room /\ hist[g].xclean)
              => SysexitsOf(hist[g].eid) # {}

\* C5, as stated: with follow_fork on, an exec by a process that is neither
\* the root tracee nor a descendant of it places no record on the ring
\* buffer and consumes no eid.
C5_OutsidersSilent ==
  \A g \in HistIdx :
    (follow_fork /\ ~hist[g].desc)
      => /\ ~hist[g].traced
         /\ hist[g].nrec = 0
         /\ hist[g].sysexits = 0

\* the SYSEXIT records a step places on the ring buffer
NewSysexits ==
  {i \in (Len(ring) + 1)..Len(ring') :
     ring'[i].header.type = SYSEXIT_EVENT}

\* C6, as stated: when the consumer takes a SYSEXIT record off the ring
\* buffer, the pre-exec tgid stored in it is in the tgid closure.
C6_InClosureAtConsume ==
  [][\A i \in (consumed + 1)..consumed' :
       ring[i].header.type = SYSEXIT_EVENT => ring[i].tgid \in tgid_closure
    ]_vars

\* C6, amended: with follow_fork on, when the exit probe places a SYSEXIT
\* record on the ring buffer, the pre-exec tgid stored in it is in the tgid
\* closure or is the captured root tracee's tgid (tracee_tgid).
C6_InClosureAtEmit ==
  [][follow_fork =>
       \A i \in NewSysexits :
         \/ ring'[i].tgid \in tgid_closure'
         \/ ring'[i].tgid = tracee_tgid'
    ]_vars

\* with follow_fork on, a SYSEXIT record has been emitted and consumed while
\* its tgid is in the closure
C6_Witness ==
  \E i \in RingIdx :
    /\ follow_fork
    /\ i <= consumed
    /\ ring[i].header.type = SYSEXIT_EVENT
    /\ ring[i].tgid \in tgid_closure

\* C7, as stated: at most one EXIT record with is_root_tracee = true is
\* ever emitted.  (Restricted to runs in which no kernel read, map insertion
\* or ring write has failed.)
C7_OneRootExit == ~fault => Cardinality(RootExits) <= 1

\* the task is the root tracee: what should_trace's slow path compares
IsRootTracee(p) ==
  /\ NrOf(p, task[p].ns) = tracee_pid
  /\ task[p].ns = tracee_pidns_inum

\* the step in which the root tracee p, having entered an exec, exits as a
\* whole process (the exit of the thread-group leader)
RootExitStep(p) ==
  /\ task[p].alive /\ ~task'[p].alive
  /\ task[p].tgid = p
  /\ pc[p] # "insys"
  /\ IsRootTracee(p)
  /\ task[p].execed

\* the step places the EXIT record of the root tracee p on the ring buffer
EmitsRootExit(p) ==
  /\ Len(ring') = Len(ring) + 1
  /\ LET rec == ring'[Len(ring')]
     IN /\ rec.header.type = EXIT_EVENT
        /\ rec.header.pid = p
        /\ rec.is_root_tracee
        /\ rec.code = task'[p].exit_code \div 256
        /\ rec.sig = task'[p].exit_code % 256

ForkFollowed(f) ==
  /\ forks[f].child_in
  /\ \A g \in HistIdx :
       (hist[g].fk = f /\ hist[g].first > 0)
         => /\ forks[f].pos > 0
            /\ forks[f].pos < hist[g].first

InputFaulty(in) ==
  \/ in.flt # {}
  \/ ~in.comm_ok
  \/ in.fname = "fault"
  \/ \E i \in 1..Len(in.argv) : in.argv[i] \in {BadPtr, BadStr}
  \/ \E i \in 1..Len(in.envp) : in.envp[i] \in {BadPtr, BadStr}

\* positions of the FD records carrying this eid
FdRecordsOf(eid) ==
  {i \in RingIdx : /\ ring[i].header.type = FD_EVENT
                   /\ ring[i].header.eid = eid}

\* the FD records of the exec entry g are those of the fds in S, one each
FdRecordsAre(g, S) ==
  /\ {ring[i].fd : i \in FdRecordsOf(hist[g].eid)} = S
  /\ \A fd \in S :
       Cardinality({i \in FdRecordsOf(hist[g].eid) : ring[i].fd = fd}) = 1

\* the fds read_fds can reach: FDSET_SIZE_MAX_IN_LONG words of the bitmap
FdScanLimit == FDSET_SIZE_MAX_IN_LONG * BITS_PER_LONG

\* C10, as stated: for every traced exec with no kernel read failure, the
\* fd numbers of its FD records are exactly the bits set in open_fds, one
\* record each, however large the fd number.
C10_FdSetExact ==
  \A g \in HistIdx :
    (hist[g].traced /\ ~InputFaulty(hist[g].in))
      => FdRecordsAre(g, hist[g].in.open_fds)

\* C10, amended: for every traced exec with no kernel read failure and with
\* room in the ring buffer for all its records, the fd numbers of its FD
\* records are exactly the bits set in open_fds below 16,777,216
\* (FDSET_SIZE_MAX_IN_LONG * BITS_PER_LONG), one record each.
C10_FdSetExactBelowLimit ==
  \A g \in HistIdx :
    (hist[g].traced /\ ~InputFaulty(hist[g].in) /\ hist[g].lost = 0)
      => FdRecordsAre(g, {fd \in hist[g].in.open_fds : fd < FdScanLimit})

\* an exec with an open fd in the last word scanned and one in an earlier
\* word has its two FD records on the ring buffer
C10_Witness ==
  \E g \in HistIdx :
    /\ hist[g].traced /\ hist[g].lost = 0
    /\ hist[g].in.open_fds = {2, 16777215}
    /\ FdRecordsAre(g, {2, 16777215})

\* C11, as stated: in every FD record that reports the file's open flags,
\* the O_CLOEXEC bit is set if and only if the fd's bit is set in the
\* close_on_exec bitmap, whatever the file's own f_flags.
C11_CloexecIffBit ==
  \A g \in HistIdx :
    hist[g].traced =>
      \A i \in FdRecordsOf(hist[g].eid) :
        ring[i].path_id # -1 =>
          (O_CLOEXEC \in ring[i].flags
             <=> ring[i].fd \in hist[g].in.close_on_exec)

\* the PATH records and the PATH_SEGMENT records of a path of an exec
PathRecordsOf(eid, id) ==
  {j \in RingIdx : /\ ring[j].header.type = PATH_EVENT
                   /\ ring[j].header.eid = eid
                   /\ ring[j].header.id = id}

SegmentRecordsOf(eid, id) ==
  {j \in RingIdx : /\ ring[j].header.type = PATH_SEGMENT_EVENT
                   /\ ring[j].header.eid = eid
                   /\ ring[j].header.id = id}

\* C12, as stated: each FD record has exactly one PATH record with its
\* path_id under the same eid, that PATH record comes after the FD record,
\* and the PATH_SEGMENT records with that id come before the PATH record.
C12_PathAfterFd ==
  \A g \in HistIdx :
    hist[g].traced =>
      \A i \in FdRecordsOf(hist[g].eid) :
        /\ Cardinality(PathRecordsOf(hist[g].eid, ring[i].path_id)) = 1
        /\ \A j \in PathRecordsOf(hist[g].eid, ring[i].path_id) :
             /\ i < j
             /\ \A k \in SegmentRecordsOf(hist[g].eid, ring[i].path_id) :
                  k < j

\* C12, amended: when the exec lost no record, each FD record whose path_id
\* is not -1 has exactly one PATH record with its path_id under the same
\* eid, that PATH record comes before the FD record, and the PATH_SEGMENT
\* records with that id come before the PATH record.
C12_PathBeforeFd ==
  \A g \in HistIdx :
    (hist[g].traced /\ hist[g].lost = 0) =>
      \A i \in FdRecordsOf(hist[g].eid) :
        ring[i].path_id # -1 =>
          /\ Cardinality(PathRecordsOf(hist[g].eid, ring[i].path_id)) = 1
          /\ \A j \in PathRecordsOf(hist[g].eid, ring[i].path_id) :
               /\ j < i
               /\ \A k \in SegmentRecordsOf(hist[g].eid, ring[i].path_id) :
                    k < j

\* an exec that lost nothing has placed two FD records, the second one
\* with a path of two segments
C12_Witness ==
  \E g \in HistIdx :
    /\ hist[g].traced
    /\ hist[g].lost = 0
    /\ \E i \in FdRecordsOf(hist[g].eid) :
         /\ ring[i].path_id = 1
         /\ Cardinality(SegmentRecordsOf(hist[g].eid, 1)) = 2
         /\ PathRecordsOf(hist[g].eid, 1) # {}

\* C13, as stated: the segment_count of every PATH record is the number of
\* PATH_SEGMENT records with its (eid, id), and those records carry the
\* indices 0..segment_count-1, each once, increasing in emission order,
\* also after a reservation, a d_parent read or a bpf_loop has failed.
C13_SegmentCountExact ==
  \A i \in RingIdx :
    ring[i].header.type = PATH_EVENT =>
      LET S == SegmentRecordsOf(ring[i].header.eid, ring[i].header.id)
      IN /\ Cardinality(S) = ring[i].segment_count
         /\ {ring[j].index : j \in S} = 0..(ring[i].segment_count - 1)
         /\ \A j, k \in S : j < k => ring[j].index < ring[k].index

\* What the kernel reports for a path relative to an fs-root (d_path, which
\* walks as prepend_path does): the names from the root down.  It stops at
\* the fs-root, a pair of a dentry and a mount, and climbs to the parent
\* mount at a mount root.
RECURSIVE d_path(_, _, _, _)
d_path(dentry, mnt, root_dentry, root_mnt) ==
  IF dentry = root_dentry /\ mnt = root_mnt THEN <<>>
  ELSE IF dentry = mnt_root(mnt)
    THEN IF mnt_parent(mnt) = mnt THEN <<>>
         ELSE d_path(mnt_mountpoint(mnt), mnt_parent(mnt), root_dentry,
                     root_mnt)
  ELSE IF d_parent(dentry) = dentry THEN <<>>
  ELSE Append(d_path(d_parent(dentry), mnt, root_dentry, root_mnt),
              d_name(dentry))

\* the mount the fs-root of an exec lies in: a dentry of the file systems
\* modelled belongs to one mount
fs_root_mnt(in) == IF in.root \in {"m1_root", "m1_y"} THEN "mnt1" ELSE "mnt0"

\* the segments sent for a path, joined in reverse index order
JoinedSegments(eid, id) ==
  LET S == SegmentRecordsOf(eid, id)
      n == Cardinality(S)
  IN [k \in 1..n |->
        ring[CHOOSE j \in S : ring[j].index = n - k].segment]

\* C14, as stated: for an exec with no read failure whose records all found
\* room, the segments of the path of every fd, joined in reverse index
\* order, are the path the kernel reports for the file relative to the
\* task's fs-root, wherever that fs-root lies.
C14_PathAsKernel ==
  \A g \in HistIdx :
    (hist[g].traced /\ hist[g].lost = 0 /\ ~InputFaulty(hist[g].in)) =>
      \A i \in FdRecordsOf(hist[g].eid) :
        ring[i].path_id # -1 =>
          LET file == Files[hist[g].in.fd_array[ring[i].fd]]
              S == SegmentRecordsOf(hist[g].eid, ring[i].path_id)
          IN /\ {ring[j].index : j \in S} = 0..(Cardinality(S) - 1)
             /\ JoinedSegments(hist[g].eid, ring[i].path_id)
                  = d_path(file.dentry, file.mnt, hist[g].in.root,
                           fs_root_mnt(hist[g].in))

\* the STRING records of an exec
StringRecordsOf(eid) ==
  {i \in RingIdx : ring[i].header.type = STRING_EVENT
                     /\ ring[i].header.eid = eid}

\* the bytes a STRING record carries for an entry of argv or envp
StringData(s) == IF s = BadStr THEN "" ELSE s

\* C15: for every traced exec whose SYSEXIT record was emitted, with count
\* as in that record, the STRING records under its eid carry ids in
\* 0..count[0]+count[1]-1, each at most once and increasing on the ring;
\* the ids below count[0] carry the argv entry of that index and the others
\* the envp entry of index id - count[0].
C15_StringIds ==
  \A g \in HistIdx :
    (hist[g].traced /\ hist[g].xpos # 0) =>
      LET count == ring[hist[g].xpos].count
          S == StringRecordsOf(hist[g].eid)
          in == hist[g].in
      IN /\ ring[hist[g].xpos].header.eid = hist[g].eid
         /\ \A i \in S :
              /\ ring[i].header.id \in 0..(count[1] + count[2] - 1)
              /\ IF ring[i].header.id < count[1]
                   THEN ring[i].data
                          = StringData(VecAt(Vec(in.argv, in.argv_pad),
                                             ring[i].header.id))
                   ELSE ring[i].data
                          = StringData(VecAt(Vec(in.envp, in.envp_pad),
                                             ring[i].header.id - count[1]))
         /\ \A i, j \in S : i < j => ring[i].header.id < ring[j].header.id

\* an exec whose SYSEXIT record was emitted could not read a pointer of
\* argv, has lost its first envp string for lack of room and has placed
\* the second one
C15_Witness ==
  \E g \in HistIdx :
    /\ hist[g].traced /\ hist[g].xpos # 0 /\ hist[g].lost > 0
    /\ BadPtr \in {hist[g].in.argv[k] : k \in 1..Len(hist[g].in.argv)}
    /\ \E i \in StringRecordsOf(hist[g].eid) :
         ring[i].header.id = ring[hist[g].xpos].count[1] + 1
    /\ \A i \in StringRecordsOf(hist[g].eid) :
         ring[i].header.id # ring[hist[g].xpos].count[1]

\* C16, as stated: for every traced exec whose records all found room, the
\* header ids of the FD records under its eid are exactly 0..fd_count-1,
\* each once, with fd_count as in its SYSEXIT record.
C16_FdIdsDense ==
  \A g \in HistIdx :
    (hist[g].traced /\ hist[g].lost = 0 /\ hist[g].xpos # 0) =>
      LET S == FdRecordsOf(hist[g].eid)
      IN /\ {ring[i].header.id : i \in S}
              = 0..(ring[hist[g].xpos].fd_count - 1)
         /\ \A i, j \in S : ring[i].header.id = ring[j].header.id => i = j

\* C17, as stated: every slot of the execs map belongs to a live thread
\* that is between its exec entry and its exec exit.
C17_SlotsOnlyInExec ==
  \A p \in DOMAIN execs : task[p].alive /\ pc[p] = "insys"

\* the step is an exec entry whose slot could not be inserted
EntryDropped ==
  /\ Len(hist') = Len(hist) + 1
  /\ ~hist'[Len(hist')].inserted

\* the step is the exec exit of thread p, whose entry was dropped
ExitOfDropped(p) ==
  /\ pc[p] = "insys"
  /\ pc'[p] # "insys"
  /\ ~hist[ctx[p]].inserted

\* C18, as stated: an exec entry whose slot cannot be inserted increments
\* the drop counter, leaves event_counter alone, places no record and
\* modifies no slot, and the exit of that exec places no SYSEXIT record.
C18_DroppedExecSilent ==
  [][/\ EntryDropped =>
          /\ drop_counter' = drop_counter + 1
          /\ event_counter' = event_counter
          /\ ring' = ring
          /\ execs' = execs
     /\ \A p \in Pids : ExitOfDropped(p) => ring' = ring]_vars

\* the execs C19 is about: traced, the SYSEXIT record emitted, and every
\* pointer of argv and envp readable
AllPointersRead(g) ==
  /\ hist[g].traced
  /\ hist[g].xpos # 0
  /\ \A k \in 1..Len(hist[g].in.argv) : hist[g].in.argv[k] # BadPtr
  /\ \A k \in 1..Len(hist[g].in.envp) : hist[g].in.envp[k] # BadPtr

ArgvLen(g) == VecLen(Vec(hist[g].in.argv, hist[g].in.argv_pad))
EnvpLen(g) == VecLen(Vec(hist[g].in.envp, hist[g].in.envp_pad))

\* C19, as stated: the SYSEXIT record carries TOO_MANY_ITEMS exactly when
\* argv or envp has more than ARGC_MAX entries, and then the count of that
\* vector is ARGC_MAX; a vector of exactly ARGC_MAX entries does not set
\* the flag.
C19_FlagIffMoreThanMax ==
  \A g \in HistIdx :
    AllPointersRead(g) =>
      LET x == ring[hist[g].xpos]
      IN /\ TOO_MANY_ITEMS \in x.header.flags
              <=> (ArgvLen(g) > ARGC_MAX \/ EnvpLen(g) > ARGC_MAX)
         /\ ArgvLen(g) > ARGC_MAX => x.count[1] = ARGC_MAX
         /\ EnvpLen(g) > ARGC_MAX => x.count[2] = ARGC_MAX

\* the entry of argv or envp that the STRING record i of exec g was read
\* from, with the counts of the exec's SYSEXIT record
SourceString(g, i) ==
  LET count == ring[hist[g].xpos].count
      id == ring[i].header.id
  IN IF id < count[1]
       THEN VecAt(Vec(hist[g].in.argv, hist[g].in.argv_pad), id)
       ELSE VecAt(Vec(hist[g].in.envp, hist[g].in.envp_pad), id - count[1])

\* C20, as stated: a STRING record carries POSSIBLE_TRUNCATION exactly when
\* the read of its own string filled the buffer and STR_READ_FAILURE exactly
\* when that read failed; a flag raised for an earlier record is not on it.
C20_StringFlagsOwn ==
  \A g \in HistIdx :
    (hist[g].traced /\ hist[g].xpos # 0) =>
      \A i \in StringRecordsOf(hist[g].eid) :
        /\ POSSIBLE_TRUNCATION \in ring[i].header.flags
             <=> SourceString(g, i) = LongStr
        /\ STR_READ_FAILURE \in ring[i].header.flags
             <=> SourceString(g, i) = BadStr

\* C21, as stated: when a sub-event of a traced exec found no room in the
\* ring, the SYSEXIT record emitted for that exec carries OUTPUT_FAILURE.
C21_OutputFailureOnParent ==
  \A g \in HistIdx :
    (hist[g].traced /\ hist[g].xpos # 0 /\ hist[g].lost > 0) =>
      OUTPUT_FAILURE \in ring[hist[g].xpos].header.flags

\* the loop over the mounts of this path of the exec with input `in` is
\* started and never reaches its stop condition: the reads of its first
\* iteration fail, the callback continues with the same mount, and so do
\* all PATH_DEPTH_MAX iterations
MountWalkOverruns(in, path) ==
  /\ ~Fault(in, "fs.root", "current")
  /\ ~Fault(in, "mnt_root", path.mnt)
  /\ MountReadFails(in, path.mnt)
  /\ loop_mount_segments(0, [mnt |-> path.mnt, base_index |-> 0],
                         [dentry |-> NULL, mnt_root |-> NULL,
                          root |-> fs_root(in), base_index |-> 0],
                         [NewSt EXCEPT !.rg = <<>>, !.taken = 0],
                         in).n = PATH_DEPTH_MAX

\* C22, as stated: the PATH record of a path whose mount walk used all
\* PATH_DEPTH_MAX iterations without reaching its stop condition carries
\* LOOP_FAIL.
C22_LoopFailOnOverrun ==
  \A g \in HistIdx :
    hist[g].traced =>
      \A i \in FdRecordsOf(hist[g].eid) :
        (/\ ring[i].path_id # -1
         /\ MountWalkOverruns(
              hist[g].in,
              [dentry |-> Files[hist[g].in.fd_array[ring[i].fd]].dentry,
               mnt |-> Files[hist[g].in.fd_array[ring[i].fd]].mnt]))
          => \A j \in PathRecordsOf(hist[g].eid, ring[i].path_id) :
               LOOP_FAIL \in ring[j].header.flags

\* C23, as stated: no FD record carries an fd number that is the configured
\* nofile or larger.
C23_NoFdAtOrAboveNofile ==
  \A i \in RingIdx :
    ring[i].header.type = FD_EVENT => ring[i].fd < nofile

\* the step is the rest of the exec entry probe of p, which was preempted
ResumedStep(p) == pc[p] = "preempted" /\ pc'[p] = "insys"

\* C24, as stated: every record an exec entry probe writes after it was
\* preempted by other probes on its CPU carries the pid and the eid of its
\* own exec, and a STRING record its own string.
C24_ScratchStaysOwn ==
  [][\A p \in Pids :
       ResumedStep(p) =>
         \A i \in (Len(ring) + 1)..Len(ring') :
           /\ ring'[i].header.pid = p
           /\ ring'[i].header.eid = hist[ctx[p]].eid
           /\ ring'[i].header.type \in SubEventTypes
           /\ ring'[i].header.type = STRING_EVENT
                => ring'[i].data \in {hist[ctx[p]].in.argv[k] :
                                        k \in 1..Len(hist[ctx[p]].in.argv)}]_vars

\* C25, as stated: in every reachable state, with follow_fork on or off,
\* every tgid in the closure is the tgid of a live process that is the root
\* tracee or descends from it.
C25_ClosureIsLiveDescendants ==
  \A t \in tgid_closure :
    \E q \in Pids : /\ task[q].alive
                    /\ task[q].tgid = t
                    /\ task[q].desc


\* the fork f was made by a process in the closure with follow_fork on, and
\* the probe placed the FORK record but could not insert the child
InsertionFailed(f) ==
  /\ forks[f].follow
  /\ forks[f].parent_in
  /\ forks[f].pos > 0
  /\ ~forks[f].child_in

\* C26, as stated: after add_tgid_to_closure has failed for a forked child,
\* every later trace decision for that process is the one it would have
\* been had the insertion succeeded: the exec entries of the child's leader
\* thread are traced.
C26_FailedInsertStillTraced ==
  \A f \in ForkIdx, g \in HistIdx :
    (/\ InsertionFailed(f)
     /\ hist[g].fk = f
     /\ hist[g].pid = forks[f].child
     /\ hist[g].tgid = forks[f].child
     /\ hist[g].slot)
      => hist[g].traced


\* the exec entry whose eid the record i carries
ExecOf(i) ==
  CHOOSE g \in HistIdx : hist[g].traced /\ hist[g].eid = ring[i].header.eid

\* a number field of an FD record: the file's own value, or 0 with the
\* field's error flag in the record's header
NumberFieldOk(v, own, i, flag) ==
  \/ ToString(v) = ToString(own)
  \/ ToString(v) = ToString(0) /\ flag \in ring[i].header.flags

\* C27, as stated: in every FD record, pos, ino and mnt_id hold the value of
\* the fd's own file or 0 with the field's error flag set, and fstype holds
\* the file's own or the sentinel; none holds what the staging entry held
\* before.
C27_FdFieldsOwnOrSentinel ==
  \A i \in RingIdx :
    ring[i].header.type = FD_EVENT =>
      LET file == Files[hist[ExecOf(i)].in.fd_array[ring[i].fd]]
      IN /\ NumberFieldOk(ring[i].pos, file.f_pos, i, POS_READ_ERR)
         /\ NumberFieldOk(ring[i].ino, file.i_ino, i, INO_READ_ERR)
         /\ NumberFieldOk(ring[i].mnt_id, mnt_id(file.mnt), i, MNTID_READ_ERR)
         /\ ring[i].fstype \in {fstype_name(file.mnt), UNKNOWN}


\* the exec entries whose slot insertion failed, and those whose slot lookup
\* at exit failed
FailedInsertions == {g \in HistIdx : ~hist[g].inserted}
FailedLookups == {g \in HistIdx : ~hist[g].found}

\* the tasks that have loaded drop_counter and not yet stored it back
Incrementing == {p \in Pids : pc[p] \in {"drop_enter", "drop_exit"}}

\* C28, as stated: whenever no increment is in flight, drop_counter is the
\* number of failed slot insertions plus the number of failed slot lookups
\* so far, under any interleaving of the probes.
C28_DropCounterExact ==
  Incrementing = {}
    => drop_counter = Cardinality(FailedInsertions)
                        + Cardinality(FailedLookups)


\* a call that has returned with every lock it took released by one unlock
\* of its own, and has not written to the ring buffer with the lock held
RcuClean(a) == a.depth = 0 /\ ~a.unmatched /\ ~a.wrote_locked

\* C29: on every path through should_trace and read_fds each rcu_read_lock
\* is matched by exactly one rcu_read_unlock before the function returns,
\* and the ring buffer is not written while the lock is held.
C29_RcuBalanced ==
  \A g \in HistIdx : /\ RcuClean(hist[g].rcu.should_trace)
                     /\ RcuClean(hist[g].rcu.read_fds)

\* an exec entry whose should_trace took the lock (closure miss, the root
\* tracee matched) and whose read_fds failed a read inside the lock
C29_Witness ==
  \E g \in HistIdx :
    /\ follow_fork
    /\ hist[g].traced
    /\ hist[g].pid = RootPid
    /\ <<"fdt", "current">> \in hist[g].in.flt
    /\ \E e \in DOMAIN execs :
         /\ execs[e].header.eid = hist[g].eid
         /\ FDS_PROBE_FAILURE \in execs[e].header.flags
    /\ RcuClean(hist[g].rcu.read_fds)


\* C30, as stated: the SYSEXIT record of a traced exec carries in uid and
\* gid the uid and gid of the calling task as read at exec entry.
C30_SysexitUidGid ==
  \A i \in RingIdx, g \in HistIdx :
    (/\ ring[i].header.type = SYSEXIT_EVENT
     /\ hist[g].traced
     /\ hist[g].xpos = i)
      => /\ ring[i].uid = hist[g].in.uid
         /\ ring[i].gid = hist[g].in.gid


\* the kernel creates the task c as a thread of an existing process
ThreadForkStep(c) ==
  /\ ~task[c].alive
  /\ task'[c].alive
  /\ task'[c].tgid # c
  /\ nevents' = nevents + 1

\* the thread p, which is not the leader of its process, exits
ThreadExitStep(p) ==
  /\ task[p].alive
  /\ task[p].tgid # p
  /\ ~task'[p].alive
  /\ nevents' = nevents + 1

\* C31: the fork of a thread (child pid != tgid) and the exit of a thread
\* (pid != tgid) place no record on the ring buffer and leave the tgid
\* closure, the execs map and tracee_tgid unchanged.
C31_ThreadsLeaveNoTrace ==
  [][\A p \in Pids :
       (ThreadForkStep(p) \/ ThreadExitStep(p))
         => UNCHANGED <<ring, tgid_closure, execs, tracee_tgid>>]_vars

\* three kernel events, none an exec or a whole-process fork, after which
\* the other process lives and the root tracee's pid is free: the root
\* tracee has exited, the other process has created a thread, which got
\* that pid, and the thread has exited
C31_Witness ==
  /\ nevents = 3
  /\ hist = <<>>
  /\ forks = <<>>
  /\ task[OutsiderPid].alive
  /\ task[OutsiderPid].tgid = OutsiderPid
  /\ ~task[RootPid].alive


\* C32, as stated: when an execveat (or compat execveat) entry probe could
\* not insert a slot for the calling thread, its stores of the fd and flags
\* arguments modify no slot of the execs map.
C32_ExecveatStoresNoOp ==
  [][(EntryDropped /\ hist'[Len(hist')].in.is_execveat)
       => \A q \in DOMAIN execs :
            /\ q \in DOMAIN execs'
            /\ execs'[q].fd = execs[q].fd
            /\ execs'[q].flags = execs[q].flags]_vars


\* the smallest index i >= o with bit i of w set, BITS_PER_LONG if none
NextSetBit(w, o) ==
  IF \E i \in w : i >= o THEN Min({i \in w : i >= o}) ELSE BITS_PER_LONG

\* C33: for the word being scanned and every offset o in 0..BITS_PER_LONG,
\* find_next_bit(w, o) is the smallest set bit at or above o, or
\* BITS_PER_LONG; generic___ffs of a non-zero word is its lowest set bit;
\* the scan hands over the set bits in increasing order, each once, and
\* when it ends it has handed over every set bit, in at most BITS_PER_LONG
\* iterations.
C33_BitScan ==
  /\ \A o \in 0..BITS_PER_LONG :
       find_next_bit(scan.fdset, o) = NextSetBit(scan.fdset, o)
  /\ scan.fdset # {} => generic___ffs(scan.fdset) = Min(scan.fdset)
  /\ \A k \in 1..Len(scan.visited) :
       /\ scan.visited[k] \in scan.fdset
       /\ k > 1 => scan.visited[k - 1] < scan.visited[k]
  /\ scan.index <= BITS_PER_LONG
  /\ scan.at = "done"
       => {scan.visited[k] : k \in 1..Len(scan.visited)} = scan.fdset

\* the scan of a word with bits on both sides of the middle and at both
\* ends has ended
C33_Witness ==
  /\ scan.at = "done"
  /\ scan.fdset = {0, 31, 32, 63}
  /\ scan.visited = <<0, 31, 32, 63>>


====
